---- MODULE Spec2Model ----
(***************************************************************************)
(* Model of the storage layer of WarehousePro (class DatabaseStorage): the *)
(* stock-movement ledger, the inventory balance table, the ledger applier  *)
(* createStockMovement, and the product catalog with its soft delete.      *)
(*                                                                         *)
(* Quantities are whole numbers: on them Number(x) is x, so the code's     *)
(* Number(...) conversions are not written out.  A query result            *)
(* `const [row] = await db.select()...limit(1)` is a sequence of at most   *)
(* one row: <<>> is the code's `undefined`.                                *)
(***************************************************************************)
EXTENDS Integers, Sequences, FiniteSets, TLC

VARIABLES
  ledger,        \* table stock_movements, in insertion order
  inventory,     \* table inventory: a set of rows
  nextInvId,     \* the serial that generates inventory.id
  requests,      \* the calls in flight or finished: position, arguments, locals, result
  overlapped,    \* history: some call started while another one was in flight
  seedInventory, \* history: the inventory table of the initial state
  last,          \* history: the last completed operation of a sequential run
  products,      \* table products: a set of rows, soft-deleted ones included
  nextProductId, \* the serial that generates products.id
  now,           \* the clock read by new Date() and by the store's timestamps
  users,             \* table users
  nextUserId,        \* the serial that generates users.id
  productCategories, \* table product_categories
  nextCategoryId,    \* the serial that generates product_categories.id
  unitsOfMeasure,    \* table units_of_measure
  warehouses,        \* table warehouses
  orders,            \* table orders
  nextOrderId,       \* the serial that generates orders.id
  orderItems,        \* table order_items
  nextItemId,        \* the serial that generates order_items.id
  deleteOrders       \* the deleteOrder calls in flight or finished

entityVars ==
  <<users, nextUserId, productCategories, nextCategoryId, unitsOfMeasure, warehouses>>

orderVars == <<orders, nextOrderId, orderItems, nextItemId, deleteOrders>>

catalogTables == <<products, nextProductId, entityVars, orderVars>>

catalogVars == <<catalogTables, now>>

vars == <<catalogVars, ledger, inventory, nextInvId, requests, overlapped, seedInventory,
          last>>

----------------------------------------------------------------------------
(* Bounds and input sets *)

MaxMovements == 3
MaxRequests == 2
MaxProducts == 2
MaxCatalogOps == 3

ProductIds == {1, 2}
WarehouseIds == {"W1", "W2"}
Directions == {"IN", "OUT"}
Quantities == {3, 10, 20}
SeedQuantity == 5

Movements ==
  [productId : ProductIds, warehouseId : WarehouseIds,
   direction : Directions, quantity : Quantities]

Pairs == ProductIds \X WarehouseIds

\* The inputs of the interleaved runs
RaceMovements == {m \in Movements : m.productId = 1 /\ m.quantity \in {3, 10}}
RacePairs == {pr \in Pairs : pr[1] = 1}
RaceQuantities == {3, 10}
Requests == 1..MaxRequests

----------------------------------------------------------------------------
(* Rows *)

InventoryRow(id, productId, warehouseId, quantity, reservedQuantity, updatedAt) ==
  [id |-> id, productId |-> productId, warehouseId |-> warehouseId,
   quantity |-> quantity, reservedQuantity |-> reservedQuantity,
   updatedAt |-> updatedAt]

\* Mutant: the merge does not stamp the update time
mergeFields_NoStamp(row, partial, updatedAt) ==
  [f \in DOMAIN row |-> IF f \in DOMAIN partial THEN partial[f] ELSE row[f]]

\* {...partial, updatedAt: new Date()} applied to a row
mergeFields(row, partial, updatedAt) ==
  [f \in DOMAIN row |->
     IF f = "updatedAt" THEN updatedAt
     ELSE IF f \in DOMAIN partial THEN partial[f] ELSE row[f]]

\* db.insert(stockMovements).values(movement).returning(): the stored row, with
\* the generated id and creation timestamp
insertStockMovement(led, movement, createdAt) ==
  [id |-> Len(led) + 1, productId |-> movement.productId,
   warehouseId |-> movement.warehouseId, direction |-> movement.direction,
   quantity |-> movement.quantity, createdAt |-> createdAt]

\* Mutant: the lookup matches on the product alone
getInventoryByProductAndWarehouse_ProductOnly(inv, productId, warehouseId) ==
  LET matching == {r \in inv : r.productId = productId}
  IN IF matching = {} THEN {<<>>} ELSE {<<r>> : r \in matching}

\* The possible results of the lookup: a query with .limit(1) and no ORDER BY
\* returns any one of the matching rows, or nothing when none matches.
getInventoryByProductAndWarehouse(inv, productId, warehouseId) ==
  LET matching == {r \in inv : r.productId = productId /\ r.warehouseId = warehouseId}
  IN IF matching = {} THEN {<<>>} ELSE {<<r>> : r \in matching}

\* Mutant: the direction is ignored and every movement adds
quantityChange_IgnoreDirection(movement) == movement.quantity

quantityChange(movement) ==
  IF movement.direction = "IN" THEN movement.quantity ELSE -movement.quantity

\* Mutant: the update rewrites the whole row and resets the reservation
updateInventory_ResetsReserved(inv, id, partial, at) ==
  {IF r.id = id THEN mergeFields([r EXCEPT !.reservedQuantity = 0], partial, at) ELSE r :
     r \in inv}

\* db.update(inventory).set({...partial, updatedAt: new Date()})
\*   .where(eq(inventory.id, id))
updateInventory(inv, id, partial, at) ==
  {IF r.id = id THEN mergeFields(r, partial, at) ELSE r : r \in inv}

\* Mutant: the pair is a unique key and a second insert for it is dropped
createInventory_UniquePair(inv, id, productId, warehouseId, quantity, reservedQuantity, at) ==
  IF \E r \in inv : r.productId = productId /\ r.warehouseId = warehouseId
    THEN inv
    ELSE inv \cup {InventoryRow(id, productId, warehouseId, quantity, reservedQuantity, at)}

\* db.insert(inventory).values(inv): a new row with the next serial id
createInventory(inv, id, productId, warehouseId, quantity, reservedQuantity, at) ==
  inv \cup {InventoryRow(id, productId, warehouseId, quantity, reservedQuantity, at)}

\* Mutant: the update stores the delta alone, without the quantity read
applyMovement_Overwrite(inv, id, existingInventory, movement, at) ==
  IF existingInventory # <<>>
    THEN updateInventory(inv, existingInventory[1].id,
                         [quantity |-> quantityChange(movement)], at)
    ELSE IF movement.direction = "IN"
      THEN createInventory(inv, id, movement.productId, movement.warehouseId,
                           movement.quantity, 0, at)
      ELSE inv

\* Mutant: the update floors the new quantity at zero
applyMovement_FloorAtZero(inv, id, existingInventory, movement, at) ==
  IF existingInventory # <<>>
    THEN LET q == existingInventory[1].quantity + quantityChange(movement)
         IN updateInventory(inv, existingInventory[1].id,
                            [quantity |-> IF q < 0 THEN 0 ELSE q], at)
    ELSE IF movement.direction = "IN"
      THEN createInventory(inv, id, movement.productId, movement.warehouseId,
                           movement.quantity, 0, at)
      ELSE inv

\* Mutant: an OUT movement on a pair without a row materialises a negative balance
applyMovement_CreateOnOut(inv, id, existingInventory, movement, at) ==
  IF existingInventory # <<>>
    THEN updateInventory(inv, existingInventory[1].id,
                         [quantity |-> existingInventory[1].quantity + quantityChange(movement)],
                         at)
    ELSE createInventory(inv, id, movement.productId, movement.warehouseId,
                         quantityChange(movement), 0, at)

\* Mutant: the update is one atomic increment of the stored quantity
applyMovement_AtomicIncrement(inv, id, existingInventory, movement, at) ==
  IF existingInventory # <<>>
    THEN {IF r.id = existingInventory[1].id
            THEN [r EXCEPT !.quantity = r.quantity + quantityChange(movement),
                           !.updatedAt = at]
            ELSE r : r \in inv}
    ELSE IF movement.direction = "IN"
      THEN createInventory(inv, id, movement.productId, movement.warehouseId,
                           movement.quantity, 0, at)
      ELSE inv

\* Mutant: the update is keyed by the pair and moves every row of it
applyMovement_WholePair(inv, id, existingInventory, movement, at) ==
  IF existingInventory # <<>>
    THEN {IF r.productId = movement.productId /\ r.warehouseId = movement.warehouseId
            THEN mergeFields(r, [quantity |-> r.quantity + quantityChange(movement)], at)
            ELSE r : r \in inv}
    ELSE IF movement.direction = "IN"
      THEN createInventory(inv, id, movement.productId, movement.warehouseId,
                           movement.quantity, 0, at)
      ELSE inv

\* The balance table after the applier's second step, given what the lookup returned
applyMovement(inv, id, existingInventory, movement, at) ==
  IF existingInventory # <<>>
    THEN updateInventory(inv, existingInventory[1].id,
                         [quantity |-> existingInventory[1].quantity + quantityChange(movement)],
                         at)
    ELSE IF movement.direction = "IN"
      THEN createInventory(inv, id, movement.productId, movement.warehouseId,
                           movement.quantity, 0, at)
      ELSE inv

\* Whether the applier's second step inserts a row (and so draws a serial id)
createsRow(existingInventory, movement) ==
  existingInventory = <<>> /\ movement.direction = "IN"

----------------------------------------------------------------------------
(* Initial states *)

SeedTables == {{}, {InventoryRow(1, 1, "W1", SeedQuantity, 2, 1)}}

\* A products row; deletedAt = 0 is NULL, and so is categoryId = 0
ProductRow(id, sku, name, categoryId, cost, reorderPoint, updatedAt, deletedAt) ==
  [id |-> id, sku |-> sku, name |-> name, categoryId |-> categoryId, cost |-> cost,
   reorderPoint |-> reorderPoint, updatedAt |-> updatedAt, deletedAt |-> deletedAt]

\* Mutant: the delete removes the row
softDeleteProduct_HardDelete(prods, id, at) == {p \in prods : p.id # id}

\* db.update(products).set({deletedAt: new Date()}).where(eq(products.id, id))
softDeleteProduct(prods, id, at) ==
  {IF p.id = id THEN [p EXCEPT !.deletedAt = at] ELSE p : p \in prods}

\* The catalog the stock movements refer to
SeedProducts ==
  {ProductRow(1, <<"x", "1">>, <<"A", "b">>, 0, 4, 10, 1, 0),
   ProductRow(2, <<"B", "_">>, <<"a">>, 0, 3, 10, 1, 0)}

\* A warehouses row
WarehouseRow(id, name, updatedAt, deletedAt) ==
  [id |-> id, name |-> name, updatedAt |-> updatedAt, deletedAt |-> deletedAt]

\* The warehouses the stock movements refer to
SeedWarehouses == {WarehouseRow(w, <<"a">>, 1, 0) : w \in WarehouseIds}

\* No user, category or unit is stored
NoEntities ==
  /\ users = {}
  /\ nextUserId = 1
  /\ productCategories = {}
  /\ nextCategoryId = 1
  /\ unitsOfMeasure = {}

\* A deleteOrder call that has not started
NoDelete == [pc |-> "idle", id |-> 0, removed |-> 0, interleaved |-> FALSE, ret |-> <<>>]

\* No order and no order item is stored
NoOrders ==
  /\ orders = {}
  /\ nextOrderId = 1
  /\ orderItems = {}
  /\ nextItemId = 1
  /\ deleteOrders = [c \in Requests |-> NoDelete]

NoOp == [op |-> "none", arg |-> <<>>, ret |-> <<>>]

Idle ==
  [op |-> "none", pc |-> "idle", arg |-> <<>>, movement |-> <<>>,
   newMovement |-> <<>>, existingInventory |-> <<>>, ret |-> <<>>]

Init ==
  /\ ledger = <<>>
  /\ inventory \in SeedTables
  /\ nextInvId = Cardinality(inventory) + 1
  /\ requests = [c \in Requests |-> Idle]
  /\ overlapped = FALSE
  /\ seedInventory = inventory
  /\ last = NoOp
  /\ products = SeedProducts
  /\ nextProductId = Cardinality(SeedProducts) + 1
  /\ now = 2
  /\ NoEntities
  /\ warehouses = SeedWarehouses
  /\ NoOrders

----------------------------------------------------------------------------
(* Sequential runs: each call completes before the next one starts *)

\* Mutant: a quantity that is not positive is rejected before the insert
createStockMovement_Validates(movement) ==
  /\ movement.quantity > 0
  /\ Len(ledger) < MaxMovements
  /\ LET newMovement == insertStockMovement(ledger, movement, now)
     IN \E existingInventory \in getInventoryByProductAndWarehouse(
              inventory, movement.productId, movement.warehouseId) :
          /\ ledger' = Append(ledger, newMovement)
          /\ inventory' = applyMovement(inventory, nextInvId, existingInventory, movement, now)
          /\ nextInvId' = IF createsRow(existingInventory, movement)
                            THEN nextInvId + 1 ELSE nextInvId
          /\ last' = [op |-> "createStockMovement", arg |-> <<movement>>,
                      ret |-> <<newMovement>>]
  /\ now' = now + 1
  /\ UNCHANGED <<requests, overlapped, seedInventory, catalogTables>>

\* Mutant: a movement for a product that is soft-deleted or absent is rejected
createStockMovement_ChecksProduct(movement) ==
  /\ \E p \in products : p.id = movement.productId /\ p.deletedAt = 0
  /\ Len(ledger) < MaxMovements
  /\ LET newMovement == insertStockMovement(ledger, movement, now)
     IN \E existingInventory \in getInventoryByProductAndWarehouse(
              inventory, movement.productId, movement.warehouseId) :
          /\ ledger' = Append(ledger, newMovement)
          /\ inventory' = applyMovement(inventory, nextInvId, existingInventory, movement, now)
          /\ nextInvId' = IF createsRow(existingInventory, movement)
                            THEN nextInvId + 1 ELSE nextInvId
          /\ last' = [op |-> "createStockMovement", arg |-> <<movement>>,
                      ret |-> <<newMovement>>]
  /\ now' = now + 1
  /\ UNCHANGED <<requests, overlapped, seedInventory, catalogTables>>

createStockMovement(movement) ==
  /\ Len(ledger) < MaxMovements
  /\ LET newMovement == insertStockMovement(ledger, movement, now)
     IN \E existingInventory \in getInventoryByProductAndWarehouse(
              inventory, movement.productId, movement.warehouseId) :
          /\ ledger' = Append(ledger, newMovement)
          /\ inventory' = applyMovement(inventory, nextInvId, existingInventory, movement, now)
          /\ nextInvId' = IF createsRow(existingInventory, movement)
                            THEN nextInvId + 1 ELSE nextInvId
          /\ last' = [op |-> "createStockMovement", arg |-> <<movement>>,
                      ret |-> <<newMovement>>]
  /\ now' = now + 1
  /\ UNCHANGED <<requests, overlapped, seedInventory, catalogTables>>

SeqNext == \E movement \in Movements : createStockMovement(movement)

SeqSpec == Init /\ [][SeqNext]_vars

----------------------------------------------------------------------------
(* Interleaved runs: every awaited store access is one step of a call, and *)
(* it resolves or fails.  Each request slot carries one call.              *)

InFlight(c) == requests[c].pc \in {"inserted", "found", "missing"}

\* A call starts in the lowest unused slot
CanStart(c) ==
  /\ requests[c].pc = "idle"
  /\ \A d \in Requests : d < c => requests[d].pc # "idle"

Started(c) ==
  overlapped' = (overlapped \/ \E d \in Requests \ {c} : InFlight(d))

\* Mutant: the ledger insert is deferred until after the balance write
createStockMovement_insert_Deferred(c, movement) ==
  /\ CanStart(c)
  /\ LET newMovement == insertStockMovement(ledger, movement, now)
     IN requests' = [requests EXCEPT ![c] =
             [Idle EXCEPT !.op = "createStockMovement", !.pc = "inserted",
                          !.movement = <<movement>>, !.newMovement = <<newMovement>>]]
  /\ Started(c)
  /\ now' = now + 1
  /\ UNCHANGED <<ledger, inventory, nextInvId, seedInventory, last, catalogTables>>

\* await db.insert(stockMovements).values(movement).returning()
createStockMovement_insert(c, movement) ==
  /\ CanStart(c)
  /\ LET newMovement == insertStockMovement(ledger, movement, now)
     IN /\ ledger' = Append(ledger, newMovement)
        /\ requests' = [requests EXCEPT ![c] =
             [Idle EXCEPT !.op = "createStockMovement", !.pc = "inserted",
                          !.movement = <<movement>>, !.newMovement = <<newMovement>>]]
  /\ Started(c)
  /\ now' = now + 1
  /\ UNCHANGED <<inventory, nextInvId, seedInventory, last, catalogTables>>

\* The pc after the lookup resolved: the update, the create, or the return
afterLookup(existingInventory, movement) ==
  IF existingInventory # <<>> THEN "found"
  ELSE IF movement.direction = "IN" THEN "missing"
  ELSE "done"

\* await this.getInventoryByProductAndWarehouse(...)
createStockMovement_lookup(c) ==
  /\ requests[c].pc = "inserted"
  /\ LET movement == requests[c].movement[1]
     IN \E existingInventory \in getInventoryByProductAndWarehouse(
              inventory, movement.productId, movement.warehouseId) :
          LET pc == afterLookup(existingInventory, movement)
          IN requests' = [requests EXCEPT ![c].pc = pc,
                            ![c].existingInventory = existingInventory,
                            ![c].ret = IF pc = "done" THEN requests[c].newMovement
                                       ELSE <<>>]
  /\ UNCHANGED <<ledger, inventory, nextInvId, overlapped, seedInventory, last, catalogVars>>

\* Mutant: the call returns the updated balance row
createStockMovement_update_ReturnsBalance(c) ==
  /\ requests[c].pc = "found"
  /\ inventory' = applyMovement(inventory, nextInvId, requests[c].existingInventory,
                                requests[c].movement[1], now)
  /\ requests' = [requests EXCEPT ![c].pc = "done",
                    ![c].ret = <<CHOOSE r \in inventory' :
                                   r.id = requests[c].existingInventory[1].id>>]
  /\ UNCHANGED <<ledger, nextInvId, overlapped, seedInventory, last, catalogVars>>

\* Mutant: the update rejects when the row it was to write is gone
createStockMovement_update_RejectsIfGone(c) ==
  /\ requests[c].pc = "found"
  /\ \E r \in inventory : r.id = requests[c].existingInventory[1].id
  /\ inventory' = applyMovement(inventory, nextInvId, requests[c].existingInventory,
                                requests[c].movement[1], now)
  /\ requests' = [requests EXCEPT ![c].pc = "done", ![c].ret = requests[c].newMovement]
  /\ UNCHANGED <<ledger, nextInvId, overlapped, seedInventory, last, catalogVars>>

\* await this.updateInventory(existingInventory.id, {quantity: ...}); return newMovement
createStockMovement_update(c) ==
  /\ requests[c].pc = "found"
  /\ inventory' = applyMovement(inventory, nextInvId, requests[c].existingInventory,
                                requests[c].movement[1], now)
  /\ requests' = [requests EXCEPT ![c].pc = "done", ![c].ret = requests[c].newMovement]
  /\ UNCHANGED <<ledger, nextInvId, overlapped, seedInventory, last, catalogVars>>

\* await this.createInventory({...}); return newMovement
createStockMovement_create(c) ==
  /\ requests[c].pc = "missing"
  /\ inventory' = applyMovement(inventory, nextInvId, requests[c].existingInventory,
                                requests[c].movement[1], now)
  /\ nextInvId' = nextInvId + 1
  /\ requests' = [requests EXCEPT ![c].pc = "done", ![c].ret = requests[c].newMovement]
  /\ UNCHANGED <<ledger, overlapped, seedInventory, last, catalogVars>>

\* Mutant: both steps run in one transaction and a failure rolls the insert back
createStockMovement_fail_Rollback(c, movement) ==
  /\ \/ /\ CanStart(c)
        /\ requests' = [requests EXCEPT ![c] =
             [Idle EXCEPT !.op = "createStockMovement", !.pc = "failed",
                          !.movement = <<movement>>]]
        /\ Started(c)
        /\ UNCHANGED ledger
     \/ /\ InFlight(c)
        /\ requests[c].movement = <<movement>>
        /\ requests' = [requests EXCEPT ![c].pc = "failed"]
        /\ ledger' = SelectSeq(ledger, LAMBDA e : <<e>> # requests[c].newMovement)
        /\ UNCHANGED overlapped
  /\ UNCHANGED <<inventory, nextInvId, seedInventory, last, catalogVars>>

\* An awaited store access rejects: the exception leaves createStockMovement,
\* nothing is caught and nothing is undone.
createStockMovement_fail(c, movement) ==
  /\ \/ /\ CanStart(c)
        /\ requests' = [requests EXCEPT ![c] =
             [Idle EXCEPT !.op = "createStockMovement", !.pc = "failed",
                          !.movement = <<movement>>]]
        /\ Started(c)
     \/ /\ InFlight(c)
        /\ requests[c].movement = <<movement>>
        /\ requests' = [requests EXCEPT ![c].pc = "failed"]
        /\ UNCHANGED overlapped
  /\ UNCHANGED <<ledger, inventory, nextInvId, seedInventory, last, catalogVars>>

\* createInventory called directly: one insert
createInventory_call(c, productId, warehouseId, quantity) ==
  /\ CanStart(c)
  /\ inventory' = createInventory(inventory, nextInvId, productId, warehouseId, quantity,
                                  0, now)
  /\ nextInvId' = nextInvId + 1
  /\ requests' = [requests EXCEPT ![c] =
       [Idle EXCEPT !.op = "createInventory", !.pc = "done",
                    !.arg = <<[productId |-> productId, warehouseId |-> warehouseId,
                               quantity |-> quantity, reservedQuantity |-> 0]>>,
                    !.ret = <<InventoryRow(nextInvId, productId, warehouseId, quantity,
                                           0, now)>>]]
  /\ Started(c)
  /\ UNCHANGED <<ledger, seedInventory, last, catalogVars>>

\* updateInventory called directly with {quantity}: one update, returning the row or nothing
updateInventory_call(c, id, quantity) ==
  /\ CanStart(c)
  /\ inventory' = updateInventory(inventory, id, [quantity |-> quantity], now)
  /\ requests' = [requests EXCEPT ![c] =
       [Idle EXCEPT !.op = "updateInventory", !.pc = "done",
                    !.arg = <<id, [quantity |-> quantity]>>,
                    !.ret = IF \E r \in inventory' : r.id = id
                              THEN <<CHOOSE r \in inventory' : r.id = id>> ELSE <<>>]]
  /\ Started(c)
  /\ UNCHANGED <<ledger, nextInvId, seedInventory, last, catalogVars>>

\* db.select().from(inventory).where(eq(inventory.id, id)).limit(1): the
\* possible results, <<>> when no row matches
getInventory(inv, id) ==
  IF \E r \in inv : r.id = id THEN {<<r>> : r \in {q \in inv : q.id = id}} ELSE {<<>>}

\* db.select().from(inventory).where(eq(inventory.productId, productId)): the
\* rows returned, in an order the query does not fix
getInventoryByProduct(inv, productId) == {r \in inv : r.productId = productId}

\* db.select().from(inventory).where(eq(inventory.warehouseId, warehouseId))
getInventoryByWarehouse(inv, warehouseId) == {r \in inv : r.warehouseId = warehouseId}

\* db.select().from(inventory)
getAllInventory(inv) == inv

\* Mutant: the delete removes every balance row of the target's pair
deleteInventoryRows_WholePair(inv, id) ==
  {r \in inv : ~ \E q \in inv : q.id = id /\ q.productId = r.productId
                                  /\ q.warehouseId = r.warehouseId}

\* db.delete(inventory).where(eq(inventory.id, id)).returning()
deleteInventoryRows(inv, id) == {r \in inv : r.id # id}

\* Mutant: deleting a balance row also purges the ledger entries of its pair
deleteInventory_call_PurgeLedger(c, id) ==
  /\ CanStart(c)
  /\ inventory' = deleteInventoryRows(inventory, id)
  /\ ledger' = SelectSeq(ledger, LAMBDA e :
                  ~ \E r \in inventory : r.id = id /\ r.productId = e.productId
                                           /\ r.warehouseId = e.warehouseId)
  /\ requests' = [requests EXCEPT ![c] =
       [Idle EXCEPT !.op = "deleteInventory", !.pc = "done", !.arg = <<id>>,
                    !.ret = <<Cardinality(inventory \ inventory') > 0>>]]
  /\ Started(c)
  /\ UNCHANGED <<nextInvId, seedInventory, last, catalogVars>>

deleteInventory_call(c, id) ==
  /\ CanStart(c)
  /\ inventory' = deleteInventoryRows(inventory, id)
  /\ requests' = [requests EXCEPT ![c] =
       [Idle EXCEPT !.op = "deleteInventory", !.pc = "done", !.arg = <<id>>,
                    !.ret = <<Cardinality(inventory \ inventory') > 0>>]]
  /\ Started(c)
  /\ UNCHANGED <<ledger, nextInvId, seedInventory, last, catalogVars>>

\* deleteProduct called between the steps of other calls: one update
deleteProduct_call(c, id) ==
  /\ CanStart(c)
  /\ products' = softDeleteProduct(products, id, now)
  /\ now' = now + 1
  /\ requests' = [requests EXCEPT ![c] =
       [Idle EXCEPT !.op = "deleteProduct", !.pc = "done", !.arg = <<id>>,
                    !.ret = <<\E p \in products : p.id = id>>]]
  /\ Started(c)
  /\ UNCHANGED <<ledger, inventory, nextInvId, seedInventory, last, nextProductId,
                 entityVars, orderVars>>

Next ==
  \E c \in Requests :
    \/ \E movement \in RaceMovements : createStockMovement_insert(c, movement)
    \/ createStockMovement_lookup(c)
    \/ createStockMovement_update(c)
    \/ createStockMovement_create(c)
    \/ \E movement \in RaceMovements : createStockMovement_fail(c, movement)
    \/ \E pr \in RacePairs, quantity \in RaceQuantities :
         createInventory_call(c, pr[1], pr[2], quantity)
    \/ \E id \in 1..nextInvId, quantity \in RaceQuantities :
         updateInventory_call(c, id, quantity)
    \/ \E id \in 1..nextInvId : deleteInventory_call(c, id)
    \/ \E id \in 1..nextProductId : deleteProduct_call(c, id)

Spec == Init /\ [][Next]_vars

----------------------------------------------------------------------------
(* Reading the ledger and the balance table per (product, warehouse) pair *)

PairEntries(led, pr) ==
  SelectSeq(led, LAMBDA e : e.productId = pr[1] /\ e.warehouseId = pr[2])

PairRows(inv, pr) == {r \in inv : r.productId = pr[1] /\ r.warehouseId = pr[2]}

Signed(e) == IF e.direction = "IN" THEN e.quantity ELSE 0 - e.quantity

RECURSIVE SignedSum(_)
SignedSum(es) == IF es = <<>> THEN 0 ELSE Signed(Head(es)) + SignedSum(Tail(es))

SignedSeq(es) == [i \in 1..Len(es) |-> Signed(es[i])]

RECURSIVE FromFirstIn(_)
FromFirstIn(es) ==
  IF es = <<>> THEN <<>>
  ELSE IF Head(es).direction = "IN" THEN es ELSE FromFirstIn(Tail(es))

AllIn(es) == \A i \in 1..Len(es) : es[i].direction = "IN" /\ es[i].quantity > 0

----------------------------------------------------------------------------
(* C1: on a pair that starts with no balance row and no movements, after   *)
(* one or more sequential IN movements with positive quantities exactly    *)
(* one balance row exists for the pair and its quantity is the sum of the  *)
(* movement quantities.                                                    *)
C1_InMovementsSum ==
  \A pr \in Pairs :
    LET es == PairEntries(ledger, pr)
        rows == PairRows(inventory, pr)
    IN (PairRows(seedInventory, pr) = {} /\ es # <<>> /\ AllIn(es))
         => /\ Cardinality(rows) = 1
            /\ \A r \in rows : r.quantity = SignedSum(es)

C1_Witness ==
  \E pr \in Pairs :
    LET es == PairEntries(ledger, pr)
    IN /\ PairRows(seedInventory, pr) = {}
       /\ Len(es) = 3 /\ AllIn(es)
       /\ \E r \in PairRows(inventory, pr) : r.quantity = 3 + 10 + 20

(* C2: on a pair whose balance row exists from the start with quantity q0, *)
(* after any sequential mix of IN and OUT movements the row's quantity is  *)
(* q0 + sum(IN) - sum(OUT), negative included; on a fresh pair IN 10,      *)
(* OUT 3, OUT 20 gives 10, 7, -13; no movement is refused, whatever the    *)
(* balance.                                                                *)
C2_MixedMovementsSum ==
  \A pr \in Pairs :
    LET es == PairEntries(ledger, pr)
        rows == PairRows(inventory, pr)
        seeds == PairRows(seedInventory, pr)
    IN /\ seeds # {} =>
            /\ Cardinality(rows) = 1
            /\ \A r \in rows : \A s \in seeds :
                 r.quantity = s.quantity + SignedSum(es)
       /\ (seeds = {} /\ SignedSeq(es) = <<10>>) =>
            \A r \in rows : r.quantity = 10
       /\ (seeds = {} /\ SignedSeq(es) = <<10, -3>>) =>
            \A r \in rows : r.quantity = 7
       /\ (seeds = {} /\ SignedSeq(es) = <<10, -3, -20>>) =>
            (rows # {} /\ \A r \in rows : r.quantity = -13)
       /\ Len(ledger) < MaxMovements =>
            \A movement \in Movements : ENABLED createStockMovement(movement)

C2_Witness ==
  \E pr \in Pairs :
    LET es == PairEntries(ledger, pr)
    IN /\ PairRows(seedInventory, pr) # {}
       /\ \E i, j \in 1..Len(es) : es[i].direction = "IN" /\ es[j].direction = "OUT"
       /\ \E r \in PairRows(inventory, pr) :
            r.quantity < 0 /\ r.quantity = SeedQuantity + SignedSum(es)

(* C3 as stated: starting from an empty ledger and an empty balance table, *)
(* after sequential movements every pair that has a balance row has        *)
(* quantity equal to the signed sum of all ledger entries of the pair.     *)
C3_Original ==
  seedInventory = {} =>
    \A pr \in Pairs : \A r \in PairRows(inventory, pr) :
      r.quantity = SignedSum(PairEntries(ledger, pr))

(* C3 amended: ... every pair that has a balance row has quantity equal to *)
(* the signed sum of the pair's ledger entries from its first IN entry on: *)
(* OUT entries recorded while the pair had no row are not counted.         *)
C3_SumFromFirstIn ==
  seedInventory = {} =>
    \A pr \in Pairs : \A r \in PairRows(inventory, pr) :
      r.quantity = SignedSum(FromFirstIn(PairEntries(ledger, pr)))

C3_Witness ==
  /\ seedInventory = {}
  /\ \E pr \in Pairs :
       LET es == PairEntries(ledger, pr)
       IN /\ Len(es) = 3
          /\ es[1].direction = "OUT" /\ es[2].direction = "IN" /\ es[3].direction = "OUT"
          /\ \E r \in PairRows(inventory, pr) :
               r.quantity = es[2].quantity - es[3].quantity

(* C4: a sequential OUT movement on a pair that has no balance row appends *)
(* its ledger entry, creates no balance row and changes no balance; a      *)
(* lookup of the pair afterwards still returns nothing.                    *)
C4_OutWithoutBalance ==
  [][LET movement == last'.arg[1]
         pr == <<movement.productId, movement.warehouseId>>
     IN (movement.direction = "OUT" /\ PairRows(inventory, pr) = {}) =>
          /\ Len(ledger') = Len(ledger) + 1
          /\ SubSeq(ledger', 1, Len(ledger)) = ledger
          /\ LET e == ledger'[Len(ledger')]
             IN /\ e.productId = movement.productId
                /\ e.warehouseId = movement.warehouseId
                /\ e.direction = "OUT"
                /\ e.quantity = movement.quantity
          /\ inventory' = inventory
          /\ getInventoryByProductAndWarehouse(
               inventory', movement.productId, movement.warehouseId) = {<<>>}
    ]_vars

C4_Witness ==
  /\ last.op = "createStockMovement"
  /\ last.arg[1].direction = "OUT"
  /\ PairRows(inventory, <<last.arg[1].productId, last.arg[1].warehouseId>>) = {}
  /\ ledger[Len(ledger)] = last.ret[1]
  /\ inventory # {}

----------------------------------------------------------------------------
(* Interleaved runs *)

IsMovement(c) == requests[c].op = "createStockMovement"

Completed(c) == IsMovement(c) /\ requests[c].pc = "done"

PairOf(c) == <<requests[c].movement[1].productId, requests[c].movement[1].warehouseId>>

Recorded(c) ==
  /\ requests[c].newMovement # <<>>
  /\ \E i \in 1..Len(ledger) : ledger[i] = requests[c].newMovement[1]

OnlyRequests(cs) == \A e \in Requests \ cs : requests[e].pc = "idle"

\* Two completed calls that both read the same balance row with the same quantity
ReadSameQuantity(c, d) ==
  /\ c # d /\ Completed(c) /\ Completed(d)
  /\ requests[c].existingInventory # <<>>
  /\ requests[c].existingInventory = requests[d].existingInventory
  /\ OnlyRequests({c, d})

(* C5: when two interleaved calls for the same pair both read the same     *)
(* prior quantity of the existing balance row, both ledger entries are     *)
(* recorded and the final quantity is the prior quantity plus only one of  *)
(* the two deltas: a lost update, and such a run exists (the witness).     *)
C5_LostUpdate ==
  \A c, d \in Requests :
    ReadSameQuantity(c, d) =>
      LET prior == requests[c].existingInventory[1]
      IN /\ Recorded(c) /\ Recorded(d) /\ Len(ledger) = 2
         /\ requests[c].newMovement # requests[d].newMovement
         /\ \E r \in inventory : r.id = prior.id
         /\ \A r \in inventory :
              r.id = prior.id =>
                /\ r.quantity \in {prior.quantity + Signed(requests[c].movement[1]),
                                   prior.quantity + Signed(requests[d].movement[1])}
                /\ r.quantity # prior.quantity + Signed(requests[c].movement[1])
                                               + Signed(requests[d].movement[1])

C5_Witness ==
  \E c, d \in Requests :
    /\ ReadSameQuantity(c, d)
    /\ PairOf(c) = PairOf(d)
    /\ requests[c].movement[1].direction = "IN"
    /\ requests[d].movement[1].direction = "OUT"
    /\ Recorded(c) /\ Recorded(d)
    /\ \E r \in inventory :
         /\ r.id = requests[c].existingInventory[1].id
         /\ r.quantity = requests[c].existingInventory[1].quantity
                           - requests[d].movement[1].quantity

\* Two completed IN calls for one pair that both found no balance row
BothFoundNoRow(c, d) ==
  /\ c # d /\ Completed(c) /\ Completed(d)
  /\ PairOf(c) = PairOf(d)
  /\ requests[c].existingInventory = <<>> /\ requests[d].existingInventory = <<>>
  /\ requests[c].movement[1].direction = "IN"
  /\ requests[d].movement[1].direction = "IN"
  /\ OnlyRequests({c, d})

(* C6: when two interleaved IN calls for the same pair both find no        *)
(* balance row, both create one: two balance rows exist for the pair, one  *)
(* per movement, and such a run exists (the witness).                      *)
C6_DuplicateBalanceRows ==
  \A c, d \in Requests :
    BothFoundNoRow(c, d) =>
      LET rows == PairRows(inventory, PairOf(c))
      IN /\ Cardinality(rows) = 2
         /\ \E r1, r2 \in rows :
              /\ r1.id # r2.id
              /\ r1.quantity = requests[c].movement[1].quantity
              /\ r2.quantity = requests[d].movement[1].quantity

C6_Witness ==
  \E c, d \in Requests :
    /\ BothFoundNoRow(c, d)
    /\ Cardinality(PairRows(inventory, PairOf(c))) = 2
    /\ requests[c].movement[1].quantity # requests[d].movement[1].quantity

(* C8: the ledger is append-only.  Every step of every storage operation   *)
(* leaves the recorded entries as they are, in place; the only step that   *)
(* changes the ledger is createStockMovement's insert, which appends the   *)
(* one entry of that call.                                                 *)
C8_LedgerAppendOnly ==
  [][\/ ledger' = ledger
     \/ /\ Len(ledger') = Len(ledger) + 1
        /\ SubSeq(ledger', 1, Len(ledger)) = ledger
        /\ \E c \in Requests :
             /\ requests[c].pc = "idle"
             /\ requests'[c].op = "createStockMovement"
             /\ requests'[c].pc = "inserted"
             /\ requests'[c].newMovement = <<ledger'[Len(ledger')]>>
    ]_vars

C8_Witness ==
  \E c, d \in Requests :
    /\ c < d
    /\ Completed(c) /\ Recorded(c)
    /\ requests[c].existingInventory # <<>>
    /\ requests[d].op = "deleteInventory" /\ requests[d].ret = <<TRUE>>
    /\ PairRows(inventory, PairOf(c)) = {}

(* C9: every createStockMovement call that completes has appended exactly  *)
(* one ledger entry, which carries the submitted product, warehouse,       *)
(* direction and quantity, and returns that entry and not a balance row,   *)
(* whether the balance was found, missing with IN or missing with OUT.     *)
C9_ReturnsLedgerEntry ==
  /\ \A c \in Requests :
       Completed(c) =>
         LET movement == requests[c].movement[1]
         IN /\ requests[c].ret # <<>>
            /\ DOMAIN requests[c].ret[1] =
                 {"id", "productId", "warehouseId", "direction", "quantity", "createdAt"}
            /\ requests[c].ret = requests[c].newMovement
            /\ Cardinality({i \in 1..Len(ledger) : ledger[i] = requests[c].ret[1]}) = 1
            /\ requests[c].ret[1].productId = movement.productId
            /\ requests[c].ret[1].warehouseId = movement.warehouseId
            /\ requests[c].ret[1].direction = movement.direction
            /\ requests[c].ret[1].quantity = movement.quantity
  /\ Len(ledger) = Cardinality({c \in Requests : requests[c].newMovement # <<>>})
  /\ \A i, j \in 1..Len(ledger) : ledger[i].id = ledger[j].id => i = j

C9_Witness ==
  \E c, d \in Requests :
    /\ Completed(c) /\ Completed(d)
    /\ requests[c].existingInventory # <<>>
    /\ requests[d].existingInventory = <<>>
    /\ requests[d].movement[1].direction = "OUT"
    /\ requests[c].ret = <<ledger[1]>> /\ requests[d].ret = <<ledger[2]>>

\* A call whose lookup, update or create failed after its insert succeeded
FailedAfterInsert(c) ==
  IsMovement(c) /\ requests[c].pc = "failed" /\ requests[c].newMovement # <<>>

\* Only createStockMovement calls, none overlapping another
SequentialMovements ==
  /\ ~overlapped
  /\ \A c \in Requests : requests[c].op \in {"none", "createStockMovement"}

RECURSIVE SumQuantity(_)
SumQuantity(rows) ==
  IF rows = {} THEN 0
  ELSE LET r == CHOOSE x \in rows : TRUE IN r.quantity + SumQuantity(rows \ {r})

\* What the balance of a pair would be if it were recomputed from the ledger
LedgerBalance(pr) ==
  SumQuantity(PairRows(seedInventory, pr)) + SignedSum(PairEntries(ledger, pr))

\* The entries of a pair whose call has not (or not yet) applied its balance effect
Unapplied(pr) ==
  SelectSeq(PairEntries(ledger, pr),
            LAMBDA e : \E c \in Requests :
              requests[c].newMovement = <<e>> /\ requests[c].pc # "done")

Quiescent == \A c \in Requests : ~InFlight(c)

(* C7 as stated: once a call has failed after its ledger insert, the entry *)
(* stays recorded and the balance of its pair differs from the ledger sum  *)
(* in every later state (here: the states between calls of runs of         *)
(* non-overlapping createStockMovement calls).                             *)
C7_Original ==
  \A c \in Requests :
    (FailedAfterInsert(c) /\ SequentialMovements /\ Quiescent) =>
      /\ Recorded(c)
      /\ \A r \in PairRows(inventory, PairOf(c)) : r.quantity # LedgerBalance(PairOf(c))

(* C7 amended: a failure of the lookup, update or create after the insert  *)
(* ends the call with the error, leaves the ledger entry recorded and the  *)
(* balance table unchanged, and no later call repairs it: after            *)
(* non-overlapping calls on a pair whose balance row exists from the       *)
(* start, the balance is the initial quantity plus the signed ledger sum   *)
(* minus the signed quantities of the failed calls, so it differs from the *)
(* ledger sum unless the failed quantities cancel out.                     *)
C7_NotAtomic ==
  /\ [][\A c \in Requests :
          (requests'[c].pc = "failed" /\ requests[c].pc # "failed") =>
            /\ ledger' = ledger
            /\ inventory' = inventory
            /\ requests'[c].ret = <<>>]_vars
  /\ [](\A c \in Requests : FailedAfterInsert(c) => Recorded(c))
  /\ [](SequentialMovements =>
         \A pr \in Pairs :
           PairRows(seedInventory, pr) # {} =>
             /\ Cardinality(PairRows(inventory, pr)) = 1
             /\ \A r \in PairRows(inventory, pr) :
                  r.quantity = LedgerBalance(pr) - SignedSum(Unapplied(pr)))

C7_Witness ==
  \E c, d \in Requests :
    /\ c < d
    /\ FailedAfterInsert(c) /\ Recorded(c)
    /\ Completed(d) /\ PairOf(d) = PairOf(c)
    /\ SequentialMovements
    /\ \E r \in PairRows(inventory, PairOf(c)) :
         /\ r.quantity # LedgerBalance(PairOf(c))
         /\ r.quantity = LedgerBalance(PairOf(c)) - Signed(requests[c].movement[1])

----------------------------------------------------------------------------
(* The product catalog.  Text is a sequence of characters. *)

Skus == {<<"x", "1">>, <<"B", "_">>, <<"a", "b">>}
Names == {<<"A", "b">>, <<"a">>, <<"a", "B">>}
Queries == {<<>>, <<"a">>, <<"a", "b">>, <<"1">>, <<"b", "_">>, <<"a", "_">>, <<"z">>}
Partials == {[name |-> n] : n \in Names}

\* The records createProduct is called with
InsertProducts ==
  {[sku |-> sku, name |-> name, categoryId |-> 0, cost |-> 4, reorderPoint |-> 10] :
     sku \in Skus, name \in Names}

\* ILIKE compares without regard to case
Lower(ch) == IF ch = "A" THEN "a" ELSE IF ch = "B" THEN "b" ELSE ch

\* text ILIKE pattern: % matches any run of characters, _ any one character
RECURSIVE ILike(_, _)
ILike(text, pattern) ==
  IF pattern = <<>> THEN text = <<>>
  ELSE IF Head(pattern) = "%"
    THEN ILike(text, Tail(pattern)) \/ (text # <<>> /\ ILike(Tail(text), pattern))
  ELSE /\ text # <<>>
       /\ Head(pattern) = "_" \/ Lower(Head(pattern)) = Lower(Head(text))
       /\ ILike(Tail(text), Tail(pattern))

\* '%' + query + '%'
Contains(query) == <<"%">> \o query \o <<"%">>

\* ORDER BY on text: character by character, in code order
Rank(ch) ==
  CASE ch = "1" -> 1 [] ch = "A" -> 2 [] ch = "B" -> 3 [] ch = "_" -> 4
    [] ch = "a" -> 5 [] ch = "b" -> 6 [] ch = "x" -> 7 [] OTHER -> 8

RECURSIVE TextLess(_, _)
TextLess(a, b) ==
  IF b = <<>> THEN FALSE
  ELSE IF a = <<>> THEN TRUE
  ELSE IF Head(a) = Head(b) THEN TextLess(Tail(a), Tail(b))
  ELSE Rank(Head(a)) < Rank(Head(b))

\* The possible results of SELECT ... ORDER BY name over `rows`: rows of equal
\* name come in any order
orderByName(rows) ==
  {s \in [1..Cardinality(rows) -> rows] :
     /\ \A r \in rows : \E i \in 1..Cardinality(rows) : s[i] = r
     /\ \A i, j \in 1..Cardinality(rows) : i < j => ~TextLess(s[j].name, s[i].name)}

isNull(deletedAt) == deletedAt = 0

\* Mutant: the lookup by id does not filter on deletedAt
getProduct_NoDeletedFilter(prods, id) ==
  LET matching == {p \in prods : p.id = id}
  IN IF matching = {} THEN {<<>>} ELSE {<<p>> : p \in matching}

\* The possible results of each read; <<>> is `undefined`
getProduct(prods, id) ==
  LET matching == {p \in prods : p.id = id /\ isNull(p.deletedAt)}
  IN IF matching = {} THEN {<<>>} ELSE {<<p>> : p \in matching}

getProductBySku(prods, sku) ==
  LET matching == {p \in prods : p.sku = sku /\ isNull(p.deletedAt)}
  IN IF matching = {} THEN {<<>>} ELSE {<<p>> : p \in matching}

getAllProducts(prods) == orderByName({p \in prods : isNull(p.deletedAt)})

searchProducts(prods, query) ==
  orderByName({p \in prods :
                 /\ isNull(p.deletedAt)
                 /\ \/ ILike(p.name, Contains(query))
                    \/ ILike(p.sku, Contains(query))})

\* The unique key on products.sku (declared in the schema) rejects the insert
skuCollides(prods, sku) == \E p \in prods : p.sku = sku

CatalogStep ==
  /\ now <= MaxCatalogOps
  /\ now' = now + 1
  /\ UNCHANGED <<ledger, inventory, nextInvId, requests, overlapped, seedInventory,
                 orderVars>>

\* Mutant: the insert is rejected only for the SKU of a product that is not
\* soft-deleted
createProduct_IgnoresDeleted(product) ==
  /\ nextProductId <= MaxProducts
  /\ CatalogStep
  /\ IF skuCollides({p \in products : p.deletedAt = 0}, product.sku)
       THEN /\ last' = [op |-> "createProduct", arg |-> <<product>>,
                        ret |-> <<[error |-> "ConstraintViolation"]>>]
            /\ UNCHANGED <<products, nextProductId>>
       ELSE LET newProduct == ProductRow(nextProductId, product.sku, product.name,
                                         product.categoryId, product.cost,
                                         product.reorderPoint, now, 0)
            IN /\ products' = products \cup {newProduct}
               /\ nextProductId' = nextProductId + 1
               /\ last' = [op |-> "createProduct", arg |-> <<product>>,
                           ret |-> <<newProduct>>]
  /\ UNCHANGED entityVars

createProduct(product) ==
  /\ nextProductId <= MaxProducts
  /\ CatalogStep
  /\ IF skuCollides(products, product.sku)
       THEN /\ last' = [op |-> "createProduct", arg |-> <<product>>,
                        ret |-> <<[error |-> "ConstraintViolation"]>>]
            /\ UNCHANGED <<products, nextProductId>>
       ELSE LET newProduct == ProductRow(nextProductId, product.sku, product.name,
                                         product.categoryId, product.cost,
                                         product.reorderPoint, now, 0)
            IN /\ products' = products \cup {newProduct}
               /\ nextProductId' = nextProductId + 1
               /\ last' = [op |-> "createProduct", arg |-> <<product>>,
                           ret |-> <<newProduct>>]
  /\ UNCHANGED entityVars

updateProduct(id, partial) ==
  /\ CatalogStep
  /\ products' = {IF p.id = id THEN mergeFields(p, partial, now) ELSE p : p \in products}
  /\ last' = [op |-> "updateProduct", arg |-> <<id, partial>>,
              ret |-> IF \E p \in products : p.id = id
                        THEN <<CHOOSE p \in products' : p.id = id>> ELSE <<>>]
  /\ UNCHANGED <<nextProductId, entityVars>>

\* Mutant: the call reports true only for a row that was not yet soft-deleted
deleteProduct_TrueIfLive(id) ==
  /\ CatalogStep
  /\ products' = softDeleteProduct(products, id, now)
  /\ last' = [op |-> "deleteProduct", arg |-> <<id>>,
              ret |-> <<\E p \in products : p.id = id /\ p.deletedAt = 0>>]
  /\ UNCHANGED <<nextProductId, entityVars>>

deleteProduct(id) ==
  /\ CatalogStep
  /\ products' = softDeleteProduct(products, id, now)
  /\ last' = [op |-> "deleteProduct", arg |-> <<id>>,
              ret |-> <<\E p \in products : p.id = id>>]
  /\ UNCHANGED <<nextProductId, entityVars>>

CatalogInit ==
  /\ ledger = <<>>
  /\ inventory = {}
  /\ nextInvId = 1
  /\ requests = [c \in Requests |-> Idle]
  /\ overlapped = FALSE
  /\ seedInventory = {}
  /\ last = NoOp
  /\ products = {}
  /\ nextProductId = 1
  /\ now = 1
  /\ NoEntities
  /\ warehouses = {}
  /\ NoOrders

CatalogNext ==
  \/ \E product \in InsertProducts : createProduct(product)
  \/ \E id \in 1..nextProductId, partial \in Partials : updateProduct(id, partial)
  \/ \E id \in 1..nextProductId : deleteProduct(id)

CatalogSpec == CatalogInit /\ [][CatalogNext]_vars

\* The catalog in which the soft-deleted products were never created
NeverCreated(prods) == {p \in prods : p.deletedAt = 0}

(* C10: a soft-deleted product is absent from getAllProducts and           *)
(* searchProducts, and getProduct(id) and getProductBySku(sku) return      *)
(* absence for it, as for an id or SKU that was never created: each of the *)
(* four reads gives the same result as on the catalog without the          *)
(* soft-deleted products.                                                  *)
C10_SoftDeletedIndistinguishable ==
  /\ \A p \in products :
       p.deletedAt # 0 =>
         /\ getProduct(products, p.id) = {<<>>}
         /\ getProduct(products, p.id) = getProduct(products, nextProductId)
         /\ \A q \in Queries : \A s \in searchProducts(products, q) :
              \A i \in DOMAIN s : s[i].id # p.id
         /\ \A s \in getAllProducts(products) : \A i \in DOMAIN s : s[i].id # p.id
         /\ \A found \in getProductBySku(products, p.sku) :
              found = <<>> \/ found[1].id # p.id
  /\ \A id \in 1..(MaxProducts + 1) :
       getProduct(products, id) = getProduct(NeverCreated(products), id)
  /\ \A sku \in Skus :
       getProductBySku(products, sku) = getProductBySku(NeverCreated(products), sku)
  /\ getAllProducts(products) = getAllProducts(NeverCreated(products))
  /\ \A q \in Queries :
       searchProducts(products, q) = searchProducts(NeverCreated(products), q)

C10_Witness ==
  /\ last.op = "deleteProduct" /\ last.ret = <<TRUE>>
  /\ \E p, k \in products :
       /\ p.id = last.arg[1] /\ p.deletedAt # 0 /\ k.deletedAt = 0
       /\ getProduct(products, p.id) = {<<>>}
       /\ getProductBySku(products, p.sku) = {<<>>}
       /\ ILike(p.name, Contains(<<"a">>)) /\ ILike(k.name, Contains(<<"a">>))
       /\ searchProducts(products, <<"a">>) = {<<k>>}
       /\ getAllProducts(products) = {<<k>>}

----------------------------------------------------------------------------
(* The other soft-deletable kinds: users, product categories, units of     *)
(* measure and warehouses                                                  *)

Usernames == {"u1", "u2"}
UnitIds == {"KG", "PC"}

InsertUsers == {[username |-> u, email |-> "a@x"] : u \in Usernames}
InsertCategories == {[name |-> <<"a">>]}
InsertUnits == {[id |-> u, name |-> <<"a">>] : u \in UnitIds}
InsertWarehouses ==
  {[name |-> <<"a">>]} \cup {[id |-> w, name |-> <<"a">>] : w \in WarehouseIds}
EntityProducts == {p \in InsertProducts : p.name = <<"a">> /\ p.sku # <<"a", "b">>}

UserPartials == {[email |-> "b@x"]}
NamePartials == {[name |-> <<"A", "b">>]}
EntityPartials ==
  NamePartials \cup {[cost |-> 7, reorderPoint |-> 5], [name |-> <<"a", "B">>, updatedAt |-> 0]}

UserRow(id, username, email, updatedAt, deletedAt) ==
  [id |-> id, username |-> username, email |-> email, updatedAt |-> updatedAt,
   deletedAt |-> deletedAt]

\* A product_categories or units_of_measure row
NamedRow(id, name, updatedAt, deletedAt) ==
  [id |-> id, name |-> name, updatedAt |-> updatedAt, deletedAt |-> deletedAt]

IdsOf(rows) == {r.id : r \in rows}

\* db.update(table).set({deletedAt: new Date()}).where(eq(table.id, id))
softDelete(rows, id, at) ==
  {IF r.id = id THEN [r EXCEPT !.deletedAt = at] ELSE r : r \in rows}

\* Mutant: the update skips a row that is soft-deleted
updateRows_LiveOnly(rows, id, partial, at) ==
  {IF r.id = id /\ r.deletedAt = 0 THEN mergeFields(r, partial, at) ELSE r : r \in rows}

\* db.update(table).set({...partial, updatedAt: new Date()}).where(eq(table.id, id))
updateRows(rows, id, partial, at) ==
  {IF r.id = id THEN mergeFields(r, partial, at) ELSE r : r \in rows}

\* const [row] = ....returning(): the row the statement touched, if any
returning(rows, id) ==
  IF \E r \in rows : r.id = id THEN <<CHOOSE r \in rows : r.id = id>> ELSE <<>>

\* The unique key on users.username and the primary keys on
\* units_of_measure.id and warehouses.id (declared in the schema) reject the insert
usernameCollides(rows, username) == \E r \in rows : r.username = username

idCollides(rows, id) == \E r \in rows : r.id = id

ConstraintViolation == <<[error |-> "ConstraintViolation"]>>

EntityStep ==
  /\ CatalogStep
  /\ UNCHANGED <<products, nextProductId>>

createUser(user) ==
  /\ EntityStep
  /\ IF usernameCollides(users, user.username)
       THEN /\ last' = [op |-> "createUser", arg |-> <<user>>, ret |-> ConstraintViolation]
            /\ UNCHANGED <<users, nextUserId>>
       ELSE LET newUser == UserRow(nextUserId, user.username, user.email, now, 0)
            IN /\ users' = users \cup {newUser}
               /\ nextUserId' = nextUserId + 1
               /\ last' = [op |-> "createUser", arg |-> <<user>>, ret |-> <<newUser>>]
  /\ UNCHANGED <<productCategories, nextCategoryId, unitsOfMeasure, warehouses>>

updateUser(id, user) ==
  /\ EntityStep
  /\ users' = updateRows(users, id, user, now)
  /\ last' = [op |-> "updateUser", arg |-> <<id, user>>, ret |-> returning(users', id)]
  /\ UNCHANGED <<nextUserId, productCategories, nextCategoryId, unitsOfMeasure, warehouses>>

deleteUser(id) ==
  /\ EntityStep
  /\ users' = softDelete(users, id, now)
  /\ last' = [op |-> "deleteUser", arg |-> <<id>>, ret |-> <<returning(users', id) # <<>> >>]
  /\ UNCHANGED <<nextUserId, productCategories, nextCategoryId, unitsOfMeasure, warehouses>>

createProductCategory(category) ==
  /\ EntityStep
  /\ LET newCategory == NamedRow(nextCategoryId, category.name, now, 0)
     IN /\ productCategories' = productCategories \cup {newCategory}
        /\ nextCategoryId' = nextCategoryId + 1
        /\ last' = [op |-> "createProductCategory", arg |-> <<category>>,
                    ret |-> <<newCategory>>]
  /\ UNCHANGED <<users, nextUserId, unitsOfMeasure, warehouses>>

updateProductCategory(id, category) ==
  /\ EntityStep
  /\ productCategories' = updateRows(productCategories, id, category, now)
  /\ last' = [op |-> "updateProductCategory", arg |-> <<id, category>>,
              ret |-> returning(productCategories', id)]
  /\ UNCHANGED <<users, nextUserId, nextCategoryId, unitsOfMeasure, warehouses>>

deleteProductCategory(id) ==
  /\ EntityStep
  /\ productCategories' = softDelete(productCategories, id, now)
  /\ last' = [op |-> "deleteProductCategory", arg |-> <<id>>,
              ret |-> <<returning(productCategories', id) # <<>> >>]
  /\ UNCHANGED <<users, nextUserId, nextCategoryId, unitsOfMeasure, warehouses>>

createUnitOfMeasure(uom) ==
  /\ EntityStep
  /\ IF idCollides(unitsOfMeasure, uom.id)
       THEN /\ last' = [op |-> "createUnitOfMeasure", arg |-> <<uom>>,
                        ret |-> ConstraintViolation]
            /\ UNCHANGED unitsOfMeasure
       ELSE LET newUom == NamedRow(uom.id, uom.name, now, 0)
            IN /\ unitsOfMeasure' = unitsOfMeasure \cup {newUom}
               /\ last' = [op |-> "createUnitOfMeasure", arg |-> <<uom>>,
                           ret |-> <<newUom>>]
  /\ UNCHANGED <<users, nextUserId, productCategories, nextCategoryId, warehouses>>

updateUnitOfMeasure(id, uom) ==
  /\ EntityStep
  /\ unitsOfMeasure' = updateRows(unitsOfMeasure, id, uom, now)
  /\ last' = [op |-> "updateUnitOfMeasure", arg |-> <<id, uom>>,
              ret |-> returning(unitsOfMeasure', id)]
  /\ UNCHANGED <<users, nextUserId, productCategories, nextCategoryId, warehouses>>

deleteUnitOfMeasure(id) ==
  /\ EntityStep
  /\ unitsOfMeasure' = softDelete(unitsOfMeasure, id, now)
  /\ last' = [op |-> "deleteUnitOfMeasure", arg |-> <<id>>,
              ret |-> <<returning(unitsOfMeasure', id) # <<>> >>]
  /\ UNCHANGED <<users, nextUserId, productCategories, nextCategoryId, warehouses>>

\* data.id || Math.random().toString(36).substring(2, 12).toUpperCase(): the
\* supplied code, or else any token
warehouseCode(data) == IF "id" \in DOMAIN data THEN {data.id} ELSE WarehouseIds

createWarehouse(data) ==
  /\ EntityStep
  /\ \E id \in warehouseCode(data) :
       IF idCollides(warehouses, id)
         THEN /\ last' = [op |-> "createWarehouse", arg |-> <<data>>,
                          ret |-> ConstraintViolation]
              /\ UNCHANGED warehouses
         ELSE LET result == WarehouseRow(id, data.name, now, 0)
              IN /\ warehouses' = warehouses \cup {result}
                 /\ last' = [op |-> "createWarehouse", arg |-> <<data>>,
                             ret |-> <<result>>]
  /\ UNCHANGED <<users, nextUserId, productCategories, nextCategoryId, unitsOfMeasure>>

updateWarehouse(id, data) ==
  /\ EntityStep
  /\ warehouses' = updateRows(warehouses, id, data, now)
  /\ last' = [op |-> "updateWarehouse", arg |-> <<id, data>>,
              ret |-> returning(warehouses', id)]
  /\ UNCHANGED <<users, nextUserId, productCategories, nextCategoryId, unitsOfMeasure>>

\* result.rowCount > 0: the number of rows the update touched
deleteWarehouse(id) ==
  /\ EntityStep
  /\ warehouses' = softDelete(warehouses, id, now)
  /\ last' = [op |-> "deleteWarehouse", arg |-> <<id>>,
              ret |-> <<Cardinality({r \in warehouses : r.id = id}) > 0>>]
  /\ UNCHANGED <<users, nextUserId, productCategories, nextCategoryId, unitsOfMeasure>>

\* The stock operations that run among the entity operations
EntityMovements == {m \in Movements : m.productId = 1 /\ m.warehouseId = "W1" /\ m.quantity = 3}

EntityNext ==
  \/ \E product \in EntityProducts : createProduct(product)
  \/ \E id \in 1..nextProductId, partial \in EntityPartials : updateProduct(id, partial)
  \/ \E id \in 1..nextProductId : deleteProduct(id)
  \/ \E user \in InsertUsers : createUser(user)
  \/ \E id \in 1..nextUserId, user \in UserPartials : updateUser(id, user)
  \/ \E id \in 1..nextUserId : deleteUser(id)
  \/ \E category \in InsertCategories : createProductCategory(category)
  \/ \E id \in 1..nextCategoryId, category \in NamePartials :
       updateProductCategory(id, category)
  \/ \E id \in 1..nextCategoryId : deleteProductCategory(id)
  \/ \E uom \in InsertUnits : createUnitOfMeasure(uom)
  \/ \E id \in UnitIds, uom \in NamePartials : updateUnitOfMeasure(id, uom)
  \/ \E id \in UnitIds : deleteUnitOfMeasure(id)
  \/ \E data \in InsertWarehouses : createWarehouse(data)
  \/ \E id \in WarehouseIds, data \in NamePartials : updateWarehouse(id, data)
  \/ \E id \in WarehouseIds : deleteWarehouse(id)
  \/ \E movement \in EntityMovements :
       now <= MaxCatalogOps /\ createStockMovement(movement)
  \/ \E c \in Requests, id \in 1..nextInvId : deleteInventory_call(c, id)

EntitySpec == CatalogInit /\ [][EntityNext]_vars

----------------------------------------------------------------------------
(* Claims about the entity store *)

DeleteOps ==
  {"deleteProduct", "deleteUser", "deleteProductCategory", "deleteUnitOfMeasure",
   "deleteWarehouse"}

UpdateOps ==
  {"updateProduct", "updateUser", "updateProductCategory", "updateUnitOfMeasure",
   "updateWarehouse"}

\* The table a soft delete or an update works on
TableOf(op) ==
  CASE op \in {"deleteProduct", "updateProduct"} -> products
    [] op \in {"deleteUser", "updateUser"} -> users
    [] op \in {"deleteProductCategory", "updateProductCategory"} -> productCategories
    [] op \in {"deleteUnitOfMeasure", "updateUnitOfMeasure"} -> unitsOfMeasure
    [] op \in {"deleteWarehouse", "updateWarehouse"} -> warehouses

\* The same table after the step
TableAfter(op) ==
  CASE op \in {"deleteProduct", "updateProduct"} -> products'
    [] op \in {"deleteUser", "updateUser"} -> users'
    [] op \in {"deleteProductCategory", "updateProductCategory"} -> productCategories'
    [] op \in {"deleteUnitOfMeasure", "updateUnitOfMeasure"} -> unitsOfMeasure'
    [] op \in {"deleteWarehouse", "updateWarehouse"} -> warehouses'

\* This step is the soft delete recorded in last'
IsDeleteStep == last'.op \in DeleteOps /\ now' # now

\* `new` is `old` with nothing but the deletion timestamp of the rows `id` set
OnlyStampsTarget(old, new, id) ==
  /\ IdsOf(new) = IdsOf(old)
  /\ Cardinality(new) = Cardinality(old)
  /\ \A r \in old :
       IF r.id = id
         THEN \E r2 \in new : r2.deletedAt # 0 /\ r2 = [r EXCEPT !.deletedAt = r2.deletedAt]
         ELSE r \in new

(* C11: records of the soft-deletable kinds are never physically removed:  *)
(* in every step the stored ids of products, users, categories, units and  *)
(* warehouses only grow, and a soft delete changes nothing but the         *)
(* deletion timestamp of the row with the given id.                        *)
C11_NeverRemoved ==
  [][/\ \A op \in DeleteOps :
          /\ IdsOf(TableOf(op)) \subseteq IdsOf(TableAfter(op))
          /\ Cardinality(TableOf(op)) <= Cardinality(TableAfter(op))
     /\ IsDeleteStep =>
          /\ OnlyStampsTarget(TableOf(last'.op), TableAfter(last'.op), last'.arg[1])
          /\ \A op \in DeleteOps \ {last'.op} : TableAfter(op) = TableOf(op)
          /\ UNCHANGED <<ledger, inventory>>]_vars

C11_Witness ==
  /\ last.op = "deleteProduct" /\ last.ret = <<TRUE>>
  /\ \E p \in products : p.id = last.arg[1] /\ p.deletedAt # 0
  /\ \E w \in warehouses : w.deletedAt = 0

(* C12: a soft delete (deleteProduct, deleteUser, deleteProductCategory,   *)
(* deleteUnitOfMeasure, deleteWarehouse) returns true exactly when a       *)
(* stored row has the given id, soft-deleted before or not, and then that  *)
(* row carries the new deletion timestamp; for an id with no stored row it *)
(* returns false and leaves every table unchanged.                         *)
C12_SoftDeleteReturn ==
  [][IsDeleteStep =>
       LET id == last'.arg[1]
           stored == id \in IdsOf(TableOf(last'.op))
       IN /\ last'.ret = <<stored>>
          /\ stored => \A r \in TableAfter(last'.op) : r.id = id => r.deletedAt = now
          /\ ~stored => UNCHANGED <<catalogTables, ledger, inventory, nextInvId>>]_vars

C12_Witness ==
  /\ last.op \in DeleteOps /\ last.ret = <<FALSE>>
  /\ TableOf(last.op) # {}
  /\ last.arg[1] \notin IdsOf(TableOf(last.op))
  /\ \E r \in TableOf(last.op) : r.deletedAt # 0

\* This step is the create recorded in last'
IsCreateStep(op) == last'.op = op /\ now' # now

AllTables == <<products, users, productCategories, unitsOfMeasure, warehouses>>

(* C13: createProduct with the SKU, and createUser with the username, of   *)
(* an already stored record, soft-deleted or not, fails with a constraint  *)
(* violation, adds no record and leaves every table unchanged; with a new  *)
(* key the record is added and returned.                                   *)
C13_CreateUniqueKey ==
  [][/\ IsCreateStep("createProduct") =>
          IF \E p \in products : p.sku = last'.arg[1].sku
            THEN /\ last'.ret = ConstraintViolation
                 /\ UNCHANGED <<AllTables, ledger, inventory>>
            ELSE /\ last'.ret[1].sku = last'.arg[1].sku
                 /\ last'.ret[1].id \notin IdsOf(products)
                 /\ products' = products \cup {last'.ret[1]}
     /\ IsCreateStep("createUser") =>
          IF \E u \in users : u.username = last'.arg[1].username
            THEN /\ last'.ret = ConstraintViolation
                 /\ UNCHANGED <<AllTables, ledger, inventory>>
            ELSE /\ last'.ret[1].username = last'.arg[1].username
                 /\ last'.ret[1].id \notin IdsOf(users)
                 /\ users' = users \cup {last'.ret[1]}]_vars

C13_Witness ==
  /\ last.op = "createProduct" /\ last.ret = ConstraintViolation
  /\ \E p \in products : p.sku = last.arg[1].sku /\ p.deletedAt # 0
  /\ Cardinality(products) = 1

\* This step is the update recorded in last'
IsUpdateStep == last'.op \in UpdateOps /\ now' # now

\* r2 is r with the provided fields set, the update time stamped and every
\* other field kept
OnlyProvidedFields(r, r2, partial, at) ==
  /\ DOMAIN r2 = DOMAIN r
  /\ r2.updatedAt = at
  /\ \A f \in DOMAIN partial \ {"updatedAt"} : r2[f] = partial[f]
  /\ \A f \in DOMAIN r \ (DOMAIN partial \cup {"updatedAt"}) : r2[f] = r[f]

(* C14: update(id, partial) of a product, user, category, unit or          *)
(* warehouse changes, in the row with that id, only the provided fields    *)
(* and the updated-at timestamp (set to the time of the call, also when    *)
(* the partial provides one), and returns the updated row; no other row    *)
(* and no other table is modified; for an id that is not stored it returns *)
(* absence and changes nothing.  The update that createStockMovement makes *)
(* through updateInventory changes only quantity and updatedAt of one      *)
(* balance row.                                                            *)
C14_UpdateMerges ==
  [][/\ IsUpdateStep =>
          LET id == last'.arg[1]
              partial == last'.arg[2]
              old == TableOf(last'.op)
              new == TableAfter(last'.op)
          IN /\ \A op \in UpdateOps \ {last'.op} : TableAfter(op) = TableOf(op)
             /\ UNCHANGED <<ledger, inventory>>
             /\ IF id \in IdsOf(old)
                  THEN \E r \in old, r2 \in new :
                         /\ r.id = id
                         /\ last'.ret = <<r2>>
                         /\ OnlyProvidedFields(r, r2, partial, now)
                         /\ new = (old \ {r}) \cup {r2}
                  ELSE last'.ret = <<>> /\ new = old
     /\ (last'.op = "createStockMovement" /\ now' # now) =>
          /\ Cardinality({r \in inventory : r \notin inventory'}) <= 1
          /\ \A r \in inventory :
               r \in inventory' \/
                 \E r2 \in inventory' :
                   /\ r2.id = r.id
                   /\ OnlyProvidedFields(r, r2, [quantity |-> r2.quantity], now)]_vars

C14_Witness ==
  /\ last.op = "updateProduct"
  /\ last.arg[2] = [cost |-> 7, reorderPoint |-> 5]
  /\ \E p, q \in products :
       /\ p.id = last.arg[1] /\ last.ret = <<p>>
       /\ p.cost = 7 /\ p.reorderPoint = 5 /\ p.updatedAt = now - 1
       /\ q.id # p.id /\ q.cost = 4 /\ q.updatedAt < p.updatedAt

----------------------------------------------------------------------------
(* Claims about the product search *)

\* text contains query as a substring, case ignored
IsSubstring(query, text) ==
  \E i \in 0..(Len(text) - Len(query)) :
    \A j \in 1..Len(query) : Lower(text[i + j]) = Lower(query[j])

\* The non-deleted products whose name or SKU contains the query
Containing(prods, query) ==
  {p \in prods :
     /\ p.deletedAt = 0
     /\ IsSubstring(query, p.name) \/ IsSubstring(query, p.sku)}

(* C15: searchProducts(query) returns exactly the non-deleted products     *)
(* whose name or SKU contains the query as a case-insensitive substring,   *)
(* each once, ordered by name.                                             *)
C15_SubstringSearch ==
  \A query \in Queries : \A result \in searchProducts(products, query) :
    /\ {result[i] : i \in DOMAIN result} = Containing(products, query)
    /\ Len(result) = Cardinality(Containing(products, query))
    /\ \A i, j \in DOMAIN result : i < j => ~TextLess(result[j].name, result[i].name)

----------------------------------------------------------------------------
(* Ledger reads and dashboard aggregates.  Each read is given by the set   *)
(* of results the store may return for it.                                 *)

DefaultLimit == 10

\* Mutant: the query has no ORDER BY and returns the rows in any order
orderBy_Unordered(rows, less) ==
  {s \in [1..Cardinality(rows) -> rows] :
     \A r \in rows : \E i \in 1..Cardinality(rows) : s[i] = r}

\* The possible results of SELECT ... ORDER BY over `rows`, where <<a, b>> \in less
\* when a sorts strictly before b: every row once, and no row before one that
\* sorts strictly first; rows of equal key come in any order
orderBy(rows, less) ==
  {s \in [1..Cardinality(rows) -> rows] :
     /\ \A r \in rows : \E i \in 1..Cardinality(rows) : s[i] = r
     /\ \A i, j \in 1..Cardinality(rows) : i < j => <<s[j], s[i]>> \notin less}

\* .limit(n) / LIMIT n
limit(s, n) == [i \in 1..(IF Len(s) < n THEN Len(s) ELSE n) |-> s[i]]

\* The rows of table stock_movements
stockMovements(led) == {led[i] : i \in DOMAIN led}

\* Mutant: the order is ascending
newerFirst_Ascending(rows) == {x \in rows \X rows : x[1].createdAt < x[2].createdAt}

\* desc(stockMovements.createdAt)
newerFirst(rows) == {x \in rows \X rows : x[1].createdAt > x[2].createdAt}

getStockMovementsByProduct(led, productId) ==
  LET rows == {e \in stockMovements(led) : e.productId = productId}
  IN orderBy(rows, newerFirst(rows))

getStockMovementsByWarehouse(led, warehouseId) ==
  LET rows == {e \in stockMovements(led) : e.warehouseId = warehouseId}
  IN orderBy(rows, newerFirst(rows))

getRecentStockMovements(led, n) ==
  {limit(s, n) : s \in orderBy(stockMovements(led), newerFirst(stockMovements(led)))}

\* Mutant: the join does not filter on the deletion timestamp
joinProducts_WithDeleted(inv, prods) ==
  {x \in prods \X inv : x[2].productId = x[1].id}

\* FROM inventory i JOIN products p ON i.product_id = p.id WHERE p.deleted_at IS NULL
joinProducts(inv, prods) ==
  {x \in prods \X inv : x[2].productId = x[1].id /\ isNull(x[1].deletedAt)}

\* SUM(i.quantity * p.cost) over a non-empty set of joined rows
RECURSIVE sumValue(_)
sumValue(rows) ==
  IF rows = {} THEN 0
  ELSE LET x == CHOOSE x \in rows : TRUE
       IN x[2].quantity * x[1].cost + sumValue(rows \ {x})

\* result.rows[0]?.total_value || 0: SUM over no row is NULL
getInventoryValue(inv, prods) ==
  LET rows == joinProducts(inv, prods)
      total_value == IF rows = {} THEN <<>> ELSE <<sumValue(rows)>>
  IN IF total_value = <<>> \/ total_value[1] = 0 THEN 0 ELSE total_value[1]

\* One result row of SELECT p.*, i.*: an object keyed by column name, in which
\* a column of i overwrites the column of p that has the same name
resultRow(p, i) ==
  [f \in DOMAIN p \cup DOMAIN i |-> IF f \in DOMAIN i THEN i[f] ELSE p[f]]

\* result.rows.map(row => ({product: {...}, inventory: {...}}))
lowStockEntry(p, i) ==
  LET row == resultRow(p, i)
  IN [product |-> [f \in DOMAIN p |-> row[f]], inventory |-> [f \in DOMAIN i |-> row[f]]]

getLowStockItems(inv, prods) ==
  LET rows == {x \in joinProducts(inv, prods) : x[2].quantity <= x[1].reorderPoint}
      ordered == orderBy(rows, {x \in rows \X rows : TextLess(x[1][1].name, x[2][1].name)})
  IN {[k \in DOMAIN s |-> lowStockEntry(s[k][1], s[k][2])] : s \in ordered}

\* LEFT JOIN product_categories pc ON p.category_id = pc.category_id: the name
\* of the product's category, or NULL (written <<>>) when it has none
categoryName(p, cats) ==
  IF \E c \in cats : c.id = p.categoryId
    THEN (CHOOSE c \in cats : c.id = p.categoryId).name
    ELSE <<>>

RECURSIVE sumQuantity(_)
sumQuantity(rows) ==
  IF rows = {} THEN 0
  ELSE LET x == CHOOSE x \in rows : TRUE
       IN x[2].quantity + sumQuantity(rows \ {x})

\* GROUP BY pc.category_name ORDER BY value DESC LIMIT 5
getInventoryLevelsByCategory(inv, prods, cats) ==
  LET rows == joinProducts(inv, prods)
      groups == {[category |-> n,
                  value |-> sumQuantity({x \in rows : categoryName(x[1], cats) = n})] :
                   n \in {categoryName(x[1], cats) : x \in rows}}
  IN {limit(s, 5) :
        s \in orderBy(groups, {x \in groups \X groups : x[1].value > x[2].value})}

\* A read completes with one of its possible results and writes nothing
Read(op, arg, results) ==
  /\ \E ret \in results : last' = [op |-> op, arg |-> arg, ret |-> <<ret>>]
  /\ UNCHANGED <<ledger, inventory, nextInvId, requests, overlapped, seedInventory,
                 catalogVars>>

getStockMovementsByProduct_call(productId) ==
  Read("getStockMovementsByProduct", <<productId>>,
       getStockMovementsByProduct(ledger, productId))

getStockMovementsByWarehouse_call(warehouseId) ==
  Read("getStockMovementsByWarehouse", <<warehouseId>>,
       getStockMovementsByWarehouse(ledger, warehouseId))

\* getRecentStockMovements(limit = 10): arg is <<>> when the limit is omitted
getRecentStockMovements_call(arg) ==
  Read("getRecentStockMovements", arg,
       getRecentStockMovements(ledger, IF arg = <<>> THEN DefaultLimit ELSE arg[1]))

getInventoryValue_call ==
  Read("getInventoryValue", <<>>, {getInventoryValue(inventory, products)})

getLowStockItems_call ==
  Read("getLowStockItems", <<>>, getLowStockItems(inventory, products))

getInventoryLevelsByCategory_call ==
  Read("getInventoryLevelsByCategory", <<>>,
       getInventoryLevelsByCategory(inventory, products, productCategories))

\* The inputs of the dashboard runs
DashQuantities == {8, 3}

DashMovements ==
  {m \in [productId : ProductIds, warehouseId : WarehouseIds,
          direction : Directions, quantity : DashQuantities] :
     m.productId = 1 \/ (m.warehouseId = "W1" /\ m.direction = "IN" /\ m.quantity = 8)}

DashProducts ==
  {ProductRow(1, <<"x", "1">>, <<"A", "b">>, 1, 4, 10, 1, 0),
   ProductRow(2, <<"B", "_">>, <<"a">>, 0, 3, 10, 1, 0)}

\* Two products, one of them in a category, and a balance of 7 for product 1
DashInit ==
  /\ ledger = <<>>
  /\ inventory = {InventoryRow(1, 1, "W1", 7, 2, 1)}
  /\ nextInvId = 2
  /\ requests = [c \in Requests |-> Idle]
  /\ overlapped = FALSE
  /\ seedInventory = inventory
  /\ last = NoOp
  /\ products = DashProducts
  /\ nextProductId = Cardinality(DashProducts) + 1
  /\ now = 2
  /\ users = {}
  /\ nextUserId = 1
  /\ productCategories = {NamedRow(1, <<"a">>, 1, 0)}
  /\ nextCategoryId = 2
  /\ unitsOfMeasure = {}
  /\ warehouses = SeedWarehouses
  /\ NoOrders

DashNext ==
  \/ \E movement \in DashMovements :
       Len(ledger) < MaxMovements - 1 /\ createStockMovement(movement)
  \/ \E id \in ProductIds : deleteProduct(id)
  \/ \E productId \in ProductIds : getStockMovementsByProduct_call(productId)
  \/ \E warehouseId \in WarehouseIds : getStockMovementsByWarehouse_call(warehouseId)
  \/ \E arg \in {<<>>, <<1>>} : getRecentStockMovements_call(arg)
  \/ getInventoryValue_call
  \/ getLowStockItems_call
  \/ getInventoryLevelsByCategory_call

DashSpec == DashInit /\ [][DashNext]_vars

----------------------------------------------------------------------------
(* Claims about the dashboard aggregates *)

\* The (product, balance) pairs of non-deleted products at or below the reorder point
LowStockPairs(inv, prods) ==
  {x \in prods \X inv :
     /\ x[1].deletedAt = 0
     /\ x[2].productId = x[1].id
     /\ x[2].quantity <= x[1].reorderPoint}

(* C16: getLowStockItems returns exactly the (product, balance) pairs of   *)
(* non-deleted products whose balance quantity is <= the product's reorder *)
(* point, each once, ordered by product name: the entries name, by product *)
(* id and balance id, exactly those pairs, and carry the product's name    *)
(* and reorder point and the balance's quantity.                           *)
C16_LowStockPairs ==
  \A result \in getLowStockItems(inventory, products) :
    /\ {<<result[k].product.id, result[k].inventory.id>> : k \in DOMAIN result} =
         {<<x[1].id, x[2].id>> : x \in LowStockPairs(inventory, products)}
    /\ Len(result) = Cardinality(LowStockPairs(inventory, products))
    /\ \A k \in DOMAIN result :
         \E x \in LowStockPairs(inventory, products) :
           /\ result[k].inventory.id = x[2].id
           /\ result[k].inventory.quantity = x[2].quantity
           /\ result[k].product.name = x[1].name
           /\ result[k].product.reorderPoint = x[1].reorderPoint
    /\ \A j, k \in DOMAIN result :
         j < k => ~TextLess(result[k].product.name, result[j].product.name)

\* The balance rows whose product is stored and not soft-deleted
LiveRows(inv, prods) ==
  {r \in inv : \E p \in prods : p.id = r.productId /\ p.deletedAt = 0}

\* quantity * cost of the row's product, summed over the rows
RECURSIVE RowsValue(_, _)
RowsValue(rows, prods) ==
  IF rows = {} THEN 0
  ELSE LET r == CHOOSE r \in rows : TRUE
           p == CHOOSE p \in prods : p.id = r.productId
       IN r.quantity * p.cost + RowsValue(rows \ {r}, prods)

(* C17: getInventoryValue returns the sum of balance.quantity *            *)
(* product.cost over the balance rows whose product is not soft-deleted;   *)
(* the rows of soft-deleted products contribute nothing, and the result is *)
(* 0 when there is no such row.                                            *)
C17_InventoryValue ==
  /\ getInventoryValue(inventory, products) =
       RowsValue(LiveRows(inventory, products), products)
  /\ LiveRows(inventory, products) = {} => getInventoryValue(inventory, products) = 0
  /\ last.op = "getInventoryValue" =>
       last.ret = <<RowsValue(LiveRows(inventory, products), products)>>

C17_Witness ==
  /\ last.op = "getInventoryValue"
  /\ last.ret # <<0>>
  /\ \E r \in inventory \ LiveRows(inventory, products) : r.quantity > 0
  /\ \E r \in LiveRows(inventory, products) : r.quantity > 0
  /\ last.ret[1] <
       RowsValue(inventory, products)

ReadOps ==
  {"getStockMovementsByProduct", "getStockMovementsByWarehouse",
   "getRecentStockMovements", "getInventoryValue", "getLowStockItems",
   "getInventoryLevelsByCategory"}

\* This step completes a read
IsReadStep == last'.op \in ReadOps

\* This step completes the read that the step before completed, with the same
\* arguments
IsRepeatedRead == IsReadStep /\ last'.op = last.op /\ last'.arg = last.arg

\* The key a read sorts its rows by
SortKey(op, row) ==
  CASE op = "getLowStockItems" -> row.product.name
    [] op = "getInventoryLevelsByCategory" -> <<row.value>>
    [] OTHER -> <<row.createdAt>>

\* Two results that differ at most in which of several rows of equal sort key
\* stands at a position; without LIMIT they hold the same rows
SameUpToTies(op, a, b) ==
  IF op = "getInventoryValue" THEN a = b
  ELSE /\ Len(a) = Len(b)
       /\ \A k \in DOMAIN a : SortKey(op, a[k]) = SortKey(op, b[k])
       /\ op \notin {"getRecentStockMovements", "getInventoryLevelsByCategory"} =>
            {a[k] : k \in DOMAIN a} = {b[k] : k \in DOMAIN b}

----------------------------------------------------------------------------
(* Claims about what createStockMovement writes to the balance table *)

\* The step of a sequential createStockMovement call
IsMovementStep == last'.op = "createStockMovement" /\ Len(ledger') = Len(ledger) + 1

\* The balance rows the step inserted
CreatedRows == {r \in inventory' : \A q \in inventory : q.id # r.id}

(* C19: a balance row created by createStockMovement (IN on a pair without *)
(* a row) has the movement's pair, quantity equal to the movement quantity *)
(* and reservedQuantity 0, and createStockMovement never changes the       *)
(* reservedQuantity of an existing balance row.                            *)
C19_ReservedQuantityFrame ==
  [][IsMovementStep =>
       LET movement == last'.arg[1]
           missing == PairRows(inventory, <<movement.productId, movement.warehouseId>>) = {}
       IN /\ Cardinality(CreatedRows) =
               (IF missing /\ movement.direction = "IN" THEN 1 ELSE 0)
          /\ \A r \in CreatedRows :
               /\ r.productId = movement.productId
               /\ r.warehouseId = movement.warehouseId
               /\ r.quantity = movement.quantity
               /\ r.reservedQuantity = 0
          /\ \A q \in inventory :
               \E r \in inventory' : r.id = q.id /\ r.reservedQuantity = q.reservedQuantity]_vars

\* A row reserved at 2 whose quantity a movement changed, next to a row that a
\* movement created
C19_Witness ==
  /\ last.op = "createStockMovement"
  /\ \E q \in seedInventory, r \in inventory :
       r.id = q.id /\ r.quantity # q.quantity /\ r.reservedQuantity = 2
  /\ \E r \in inventory :
       /\ \A q \in seedInventory : q.id # r.id
       /\ r.reservedQuantity = 0
       /\ \E i \in 1..Len(ledger) : ledger[i].direction = "IN" /\ r.quantity = ledger[i].quantity

----------------------------------------------------------------------------
(* Sequential runs whose callers also pass quantities that are not positive *)

UncheckedQuantities == {0 - 3, 0, 3}

UncheckedMovements ==
  [productId : {1}, warehouseId : WarehouseIds,
   direction : Directions, quantity : UncheckedQuantities]

UncheckedNext == \E movement \in UncheckedMovements : createStockMovement(movement)

UncheckedSpec == Init /\ [][UncheckedNext]_vars

(* C20: createStockMovement does not validate the quantity: a call with a  *)
(* zero or negative quantity is accepted like any other, its entry is      *)
(* appended with the quantity as given, and the signed delta is applied to *)
(* the balance: added to every row of the pair, or, for IN on a pair       *)
(* without a row, stored as the new row's quantity.                        *)
C20_NoQuantityValidation ==
  [][/\ Len(ledger) < MaxMovements =>
          \A movement \in UncheckedMovements : ENABLED createStockMovement(movement)
     /\ IsMovementStep =>
          LET movement == last'.arg[1]
              pr == <<movement.productId, movement.warehouseId>>
          IN /\ ledger' = Append(ledger, ledger'[Len(ledger')])
             /\ ledger'[Len(ledger')].quantity = movement.quantity
             /\ ledger'[Len(ledger')].direction = movement.direction
             /\ IF PairRows(inventory, pr) # {}
                  THEN \E q \in PairRows(inventory, pr) :
                         \E r \in inventory' :
                           /\ r.id = q.id
                           /\ r.quantity = q.quantity + Signed(movement)
                           /\ inventory' \ {r} = inventory \ {q}
                  ELSE IF movement.direction = "IN"
                    THEN /\ Cardinality(CreatedRows) = 1
                         /\ \A r \in CreatedRows : r.quantity = movement.quantity
                         /\ inventory' \ CreatedRows = inventory
                    ELSE inventory' = inventory]_vars

\* A zero movement, an IN of -3 that created a row holding -3, and an OUT of -3
\* that raised the seed balance, all recorded
C20_Witness ==
  /\ \E i \in 1..Len(ledger) : ledger[i].quantity = 0
  /\ \E i \in 1..Len(ledger), r \in inventory :
       /\ ledger[i].quantity < 0 /\ ledger[i].direction = "IN"
       /\ r.warehouseId = ledger[i].warehouseId /\ r.productId = ledger[i].productId
       /\ r.id \notin IdsOf(seedInventory)
       /\ r.quantity < 0
  /\ \E i \in 1..Len(ledger) : ledger[i].quantity < 0 /\ ledger[i].direction = "OUT"

----------------------------------------------------------------------------
(* Claims about the direct balance operations *)

\* Request c starts and completes a direct call of `op` in this step
IsCall(c, op) == requests[c].pc = "idle" /\ requests'[c].op = op /\ requests'[c].pc = "done"

(* C21: deleteInventory(id) physically removes the balance row: it returns *)
(* true exactly when a row with that id existed, afterwards getInventory,  *)
(* getInventoryByProduct, getInventoryByWarehouse and getAllInventory no   *)
(* longer contain it, and every other balance row is unchanged.            *)
C21_HardDelete ==
  [][\A c \in Requests :
       IsCall(c, "deleteInventory") =>
         LET id == requests'[c].arg[1]
         IN /\ requests'[c].ret = <<\E r \in inventory : r.id = id>>
            /\ getInventory(inventory', id) = {<<>>}
            /\ \A productId \in ProductIds :
                 id \notin IdsOf(getInventoryByProduct(inventory', productId))
            /\ \A warehouseId \in WarehouseIds :
                 id \notin IdsOf(getInventoryByWarehouse(inventory', warehouseId))
            /\ id \notin IdsOf(getAllInventory(inventory'))
            /\ {r \in inventory : r.id # id} = inventory']_vars

\* A delete of the seed row that returned true and left in place the row that
\* createInventory added for the same pair
C21_Witness ==
  \E c, d \in Requests :
    /\ requests[c].op = "createInventory" /\ requests[d].op = "deleteInventory"
    /\ requests[d].ret = <<TRUE>>
    /\ requests[d].arg[1] \in IdsOf(seedInventory)
    /\ requests[d].arg[1] \notin IdsOf(inventory)
    /\ \E r \in inventory, q \in seedInventory :
         r.productId = q.productId /\ r.warehouseId = q.warehouseId

----------------------------------------------------------------------------
(* Claims about the ledger reads *)

\* The last n entries of a sequence of ledger entries, latest first
Newest(entries, n) ==
  [k \in 1..(IF Len(entries) < n THEN Len(entries) ELSE n) |->
     entries[Len(entries) - k + 1]]

----------------------------------------------------------------------------
(* Claims about the steps of interleaved createStockMovement calls *)

\* Call c of createStockMovement writes the balance table in this step
WritesBalance(c) ==
  /\ requests[c].op = "createStockMovement"
  /\ requests'[c] # requests[c]
  /\ inventory' # inventory

(* C23: in every execution, including interleaved ones, a movement's       *)
(* ledger entry is recorded before its balance effect: whenever            *)
(* createStockMovement updates or creates a balance row for a movement,    *)
(* that movement's entry is already in the ledger.                         *)
C23_LedgerBeforeBalance ==
  [][\A c \in Requests :
       WritesBalance(c) =>
         /\ requests[c].newMovement # <<>>
         /\ \E i \in 1..Len(ledger) :
              /\ ledger[i] = requests[c].newMovement[1]
              /\ ledger[i].productId = requests[c].movement[1].productId
              /\ ledger[i].warehouseId = requests[c].movement[1].warehouseId
              /\ ledger[i].direction = requests[c].movement[1].direction
              /\ ledger[i].quantity = requests[c].movement[1].quantity
         /\ ledger' = ledger]_vars

\* Two overlapping calls, one that updated a row and one that created a row,
\* both with their entries in the ledger
C23_Witness ==
  \E c, d \in Requests :
    /\ overlapped
    /\ Completed(c) /\ Completed(d)
    /\ Recorded(c) /\ Recorded(d)
    /\ requests[c].existingInventory # <<>>
    /\ requests[d].existingInventory = <<>> /\ requests[d].movement[1].direction = "IN"
    /\ PairRows(inventory, PairOf(d)) # {}
    /\ inventory # seedInventory

(* C24: createStockMovement for pair (p, w) leaves every balance row of    *)
(* any other pair unchanged, including rows that share only the product or *)
(* only the warehouse with (p, w), and it modifies or creates at most one  *)
(* balance row per call.                                                   *)
C24_OtherPairsUnchanged ==
  [][IsMovementStep =>
       LET pr == <<last'.arg[1].productId, last'.arg[1].warehouseId>>
       IN /\ \A r \in inventory \cup inventory' :
               <<r.productId, r.warehouseId>> # pr => r \in inventory \cap inventory'
          /\ Cardinality(inventory' \ inventory) <= 1
          /\ Cardinality(inventory \ inventory') <= 1
          /\ Cardinality(inventory') <= Cardinality(inventory) + 1
          /\ IdsOf(inventory) \subseteq IdsOf(inventory')]_vars

\* After a movement for (2, W1): the seed row of (1, W1) and a row of (1, W2)
\* stand as they were written
C24_Witness ==
  /\ last.op = "createStockMovement"
  /\ last.arg[1].productId = 2 /\ last.arg[1].warehouseId = "W1"
  /\ PairRows(inventory, <<2, "W1">>) # {}
  /\ PairRows(inventory, <<1, "W1">>) = seedInventory /\ seedInventory # {}
  /\ \E r \in PairRows(inventory, <<1, "W2">>) : r.quantity = ledger[1].quantity
  /\ Len(ledger) = 2

----------------------------------------------------------------------------
(* Movements among soft deletes of products and warehouses *)

SoftDeletedMovements == {m \in DashMovements : m.quantity = 3 \/ m.productId = 2}

SoftDeletedNext ==
  \/ \E movement \in SoftDeletedMovements : createStockMovement(movement)
  \/ \E id \in ProductIds : deleteProduct(id)
  \/ \E id \in WarehouseIds : deleteWarehouse(id)

SoftDeletedSpec == DashInit /\ [][SoftDeletedNext]_vars

\* The product or the warehouse of the movement is soft-deleted
OfSoftDeleted(movement) ==
  \/ \E p \in products : p.id = movement.productId /\ p.deletedAt # 0
  \/ \E w \in warehouses : w.id = movement.warehouseId /\ w.deletedAt # 0

(* C25: createStockMovement performs no existence or soft-delete check on  *)
(* the product or warehouse: soft-deleting a product or warehouse leaves   *)
(* its balance rows and ledger entries untouched, and a later movement for *)
(* that soft-deleted product or warehouse is still appended to the ledger  *)
(* and still changes (or creates) the balance row.                         *)
C25_NoSoftDeleteCheck ==
  [][/\ (last'.op \in {"deleteProduct", "deleteWarehouse"} /\ now' # now) =>
          ledger' = ledger /\ inventory' = inventory
     /\ Len(ledger) < MaxMovements =>
          \A movement \in SoftDeletedMovements : ENABLED createStockMovement(movement)
     /\ (IsMovementStep /\ OfSoftDeleted(last'.arg[1])) =>
          LET movement == last'.arg[1]
              pr == <<movement.productId, movement.warehouseId>>
          IN /\ ledger' = Append(ledger, last'.ret[1])
             /\ last'.ret[1].productId = movement.productId
             /\ last'.ret[1].warehouseId = movement.warehouseId
             /\ last'.ret[1].quantity = movement.quantity
             /\ IF PairRows(inventory, pr) # {}
                  THEN \A q \in PairRows(inventory, pr) :
                         \E r \in inventory' :
                           r.id = q.id /\ r.quantity = q.quantity + Signed(movement)
                  ELSE IF movement.direction = "IN"
                    THEN \E r \in PairRows(inventory', pr) : r.quantity = movement.quantity
                    ELSE inventory' = inventory]_vars

\* Product 1 and warehouse W1 are soft-deleted with the seed balance in
\* place, and a later movement for (1, W1) is in the ledger and in the balance
C25_Witness ==
  /\ last.op = "createStockMovement"
  /\ last.arg[1].productId = 1 /\ last.arg[1].warehouseId = "W1"
  /\ \E p \in products : p.id = 1 /\ p.deletedAt # 0 /\ p.deletedAt < last.ret[1].createdAt
  /\ \E w \in warehouses : w.id = "W1" /\ w.deletedAt # 0 /\ w.deletedAt < last.ret[1].createdAt
  /\ ledger = <<last.ret[1]>>
  /\ \E r \in inventory, q \in seedInventory :
       r.id = q.id /\ r.quantity = q.quantity + Signed(last.arg[1])

----------------------------------------------------------------------------
(* Claims about the entries of getLowStockItems *)

(* C26: every entry returned by getLowStockItems pairs a product with a    *)
(* balance row of that same product: entry.inventory.productId equals      *)
(* entry.product.id, and entry.product.id and entry.inventory.id are the   *)
(* ids of the joined product row and of the joined balance row.            *)
C26_LowStockIds ==
  last.op = "getLowStockItems" =>
    \A k \in DOMAIN last.ret[1] :
      LET entry == last.ret[1][k]
      IN /\ entry.inventory.productId = entry.product.id
         /\ \E p \in products, i \in inventory :
              /\ i.productId = p.id
              /\ p.sku = entry.product.sku
              /\ i.warehouseId = entry.inventory.warehouseId
              /\ entry.product.id = p.id
              /\ entry.inventory.id = i.id

----------------------------------------------------------------------------
(* Claims about updates of soft-deleted records *)

(* C27: update operations do not filter on the deletion timestamp:         *)
(* updateProduct (likewise updateUser, updateProductCategory,              *)
(* updateUnitOfMeasure, updateWarehouse) called with the id of a           *)
(* soft-deleted record modifies that record and returns it, although       *)
(* getProduct for the same id returns absence.                             *)
C27_UpdateOfSoftDeleted ==
  [][IsUpdateStep =>
       \A r \in TableOf(last'.op) :
         (r.id = last'.arg[1] /\ r.deletedAt # 0) =>
           \E r2 \in TableAfter(last'.op) :
             /\ r2.id = r.id
             /\ last'.ret = <<r2>>
             /\ r2 # r
             /\ r2.updatedAt = now
             /\ \A f \in DOMAIN last'.arg[2] \ {"updatedAt"} : r2[f] = last'.arg[2][f]
             /\ r2.deletedAt = r.deletedAt
             /\ last'.op = "updateProduct" =>
                  /\ getProduct(products, r.id) = {<<>>}
                  /\ getProduct(products', r.id) = {<<>>}]_vars

\* updateProduct renamed a soft-deleted product and returned it
C27_Witness ==
  /\ last.op = "updateProduct"
  /\ last.arg[2] = [name |-> <<"A", "b">>]
  /\ \E p \in products :
       /\ p.id = last.arg[1]
       /\ p.deletedAt # 0 /\ p.updatedAt > p.deletedAt
       /\ p.name = <<"A", "b">>
       /\ last.ret = <<p>>
  /\ getProduct(products, last.arg[1]) = {<<>>}

----------------------------------------------------------------------------
(* Claims about movements on a pair that has several balance rows *)

\* Call c of createStockMovement takes its lookup step
IsLookup(c) == requests[c].pc = "inserted" /\ requests'[c].pc # "inserted"

\* Call c of createStockMovement takes the step after its lookup
IsApply(c) == requests[c].pc \in {"found", "missing"} /\ requests'[c].pc = "done"

Several(rows) == Cardinality(rows) > 1

(* C28: when several balance rows exist for the same pair (e.g. created    *)
(* through createInventory), a createStockMovement call for that pair      *)
(* changes the quantity of exactly one of them by the signed delta and     *)
(* leaves the other rows for the pair unchanged; it never creates a        *)
(* further row for the pair.                                               *)
C28_OneOfSeveralRows ==
  [][\A c \in Requests :
       /\ (IsLookup(c) /\ Several(PairRows(inventory, PairOf(c)))) =>
            /\ requests'[c].pc \in {"found", "failed"}
            /\ requests'[c].pc = "found" =>
                 requests'[c].existingInventory[1] \in PairRows(inventory, PairOf(c))
       /\ (/\ IsApply(c)
           /\ requests[c].pc = "found"
           /\ Several(PairRows(inventory, PairOf(c)))
           /\ requests[c].existingInventory[1] \in inventory) =>
            LET q == requests[c].existingInventory[1]
            IN \E r \in inventory' :
                 /\ r.id = q.id
                 /\ r.quantity = q.quantity + Signed(requests[c].movement[1])
                 /\ r.quantity # q.quantity
                 /\ inventory' \ {r} = inventory \ {q}
                 /\ Cardinality(PairRows(inventory', PairOf(c))) =
                      Cardinality(PairRows(inventory, PairOf(c)))]_vars

\* createInventory added a second row for the seed pair; the movement that
\* followed moved the new row and left the seed row as it was
C28_Witness ==
  \E c, d \in Requests :
    /\ ~overlapped
    /\ requests[c].op = "createInventory" /\ Completed(d)
    /\ PairOf(d) = <<requests[c].arg[1].productId, requests[c].arg[1].warehouseId>>
    /\ requests[d].existingInventory = requests[c].ret
    /\ Cardinality(PairRows(inventory, PairOf(d))) = 2
    /\ seedInventory # {} /\ seedInventory \subseteq PairRows(inventory, PairOf(d))
    /\ \E r \in inventory :
         /\ r.id = requests[c].ret[1].id
         /\ r.quantity = requests[c].ret[1].quantity + Signed(requests[d].movement[1])

\* The row that call c found in its lookup has been removed since
FoundRowGone(c) ==
  /\ requests[c].pc = "found"
  /\ requests[c].existingInventory[1].id \notin IdsOf(inventory)

(* C29: if deleteInventory removes a pair's balance row between            *)
(* createStockMovement's lookup of that row and its update, the update     *)
(* affects no row, createStockMovement still returns the ledger entry      *)
(* without error, and no balance row for the pair exists afterwards (the  *)
(* update re-creates nothing, so with no call but these two the pair is    *)
(* left without a row): the movement's balance effect is silently lost.    *)
C29_UpdateAfterDelete ==
  [][\A c \in Requests :
       FoundRowGone(c) =>
         /\ ENABLED createStockMovement_update(c)
         /\ IsApply(c) =>
              /\ inventory' = inventory
              /\ requests'[c].ret = requests[c].newMovement
              /\ requests'[c].ret # <<>>
              /\ \E i \in 1..Len(ledger') : <<ledger'[i]>> = requests'[c].ret
              /\ requests[c].existingInventory[1].id \notin IdsOf(inventory')
              /\ PairRows(inventory', PairOf(c)) = PairRows(inventory, PairOf(c))
              /\ (\E d \in Requests :
                    requests[d].op = "deleteInventory" /\ OnlyRequests({c, d})) =>
                   PairRows(inventory', PairOf(c)) = {}]_vars

\* A movement found the seed row, deleteInventory removed it, and the movement
\* then completed with its entry in the ledger and no row for the pair
C29_Witness ==
  \E c, d \in Requests :
    /\ overlapped /\ OnlyRequests({c, d})
    /\ Completed(c) /\ Recorded(c)
    /\ requests[c].ret = requests[c].newMovement
    /\ requests[c].existingInventory # <<>>
    /\ requests[c].existingInventory[1] \in seedInventory
    /\ requests[d].op = "deleteInventory"
    /\ requests[d].arg = <<requests[c].existingInventory[1].id>>
    /\ requests[d].ret = <<TRUE>>
    /\ PairRows(inventory, PairOf(c)) = {}

----------------------------------------------------------------------------
(* Orders and order items: deleteOrder is two awaited statements, and other *)
(* calls run between them                                                   *)

MaxOrders == 2
MaxItems == 2

OrderIds == 1..MaxOrders
InsertOrders == {[status |-> "pending"]}
InsertOrderItems == {[orderId |-> orderId, quantity |-> 1] : orderId \in OrderIds}

OrderRow(id, status) == [id |-> id, status |-> status]

OrderItemRow(id, orderId, quantity) == [id |-> id, orderId |-> orderId, quantity |-> quantity]

\* db.select().from(orderItems).where(eq(orderItems.orderId, orderId))
getOrderItems(items, orderId) == {i \in items : i.orderId = orderId}

\* db.select().from(orders).where(eq(orders.id, id)).limit(1)
getOrder(rows, id) ==
  IF \E o \in rows : o.id = id THEN {<<o>> : o \in {q \in rows : q.id = id}} ELSE {<<>>}

\* db.delete(orderItems).where(eq(orderItems.orderId, id))
deleteOrderItems(items, id) == {i \in items : i.orderId # id}

\* db.delete(orders).where(eq(orders.id, id)).returning()
deleteOrderRows(rows, id) == {o \in rows : o.id # id}

\* What an order operation leaves alone
orderFrame ==
  <<ledger, inventory, nextInvId, requests, overlapped, seedInventory, products,
    nextProductId, entityVars, now>>

createOrder(order) ==
  /\ nextOrderId <= MaxOrders
  /\ LET newOrder == OrderRow(nextOrderId, order.status)
     IN /\ orders' = orders \cup {newOrder}
        /\ last' = [op |-> "createOrder", arg |-> <<order>>, ret |-> <<newOrder>>]
  /\ nextOrderId' = nextOrderId + 1
  /\ UNCHANGED <<orderItems, nextItemId, deleteOrders, orderFrame>>

\* The insert; a deleteOrder of the same order that stands between its two
\* statements is marked as interleaved
createOrderItem(item) ==
  /\ nextItemId <= MaxItems
  /\ LET newItem == OrderItemRow(nextItemId, item.orderId, item.quantity)
     IN /\ orderItems' = orderItems \cup {newItem}
        /\ last' = [op |-> "createOrderItem", arg |-> <<item>>, ret |-> <<newItem>>]
  /\ nextItemId' = nextItemId + 1
  /\ deleteOrders' =
       [c \in Requests |->
          IF deleteOrders[c].pc = "itemsDeleted" /\ deleteOrders[c].id = item.orderId
            THEN [deleteOrders[c] EXCEPT !.interleaved = TRUE]
            ELSE deleteOrders[c]]
  /\ UNCHANGED <<orders, nextOrderId, orderFrame>>

\* Mutant: the items are removed only when the order is stored
deleteOrder_items_IfOrderStored(c, id) ==
  /\ deleteOrders[c].pc = "idle"
  /\ \A d \in Requests : d < c => deleteOrders[d].pc # "idle"
  /\ orderItems' = IF \E o \in orders : o.id = id
                     THEN deleteOrderItems(orderItems, id) ELSE orderItems
  /\ deleteOrders' = [deleteOrders EXCEPT ![c] =
       [NoDelete EXCEPT !.pc = "itemsDeleted", !.id = id,
                        !.removed = Cardinality(orderItems \ orderItems')]]
  /\ UNCHANGED <<orders, nextOrderId, nextItemId, last, orderFrame>>

\* await db.delete(orderItems).where(eq(orderItems.orderId, id))
deleteOrder_items(c, id) ==
  /\ deleteOrders[c].pc = "idle"
  /\ \A d \in Requests : d < c => deleteOrders[d].pc # "idle"
  /\ orderItems' = deleteOrderItems(orderItems, id)
  /\ deleteOrders' = [deleteOrders EXCEPT ![c] =
       [NoDelete EXCEPT !.pc = "itemsDeleted", !.id = id,
                        !.removed = Cardinality(orderItems \ orderItems')]]
  /\ UNCHANGED <<orders, nextOrderId, nextItemId, last, orderFrame>>

\* const result = await db.delete(orders).where(eq(orders.id, id)).returning();
\* return result.length > 0
deleteOrder_order(c) ==
  /\ deleteOrders[c].pc = "itemsDeleted"
  /\ orders' = deleteOrderRows(orders, deleteOrders[c].id)
  /\ deleteOrders' = [deleteOrders EXCEPT ![c].pc = "done",
                        ![c].ret = <<Cardinality(orders \ orders') > 0>>]
  /\ UNCHANGED <<nextOrderId, orderItems, nextItemId, last, orderFrame>>

OrderNext ==
  \/ \E order \in InsertOrders : createOrder(order)
  \/ \E item \in InsertOrderItems : createOrderItem(item)
  \/ \E c \in Requests, id \in OrderIds : deleteOrder_items(c, id)
  \/ \E c \in Requests : deleteOrder_order(c)

OrderSpec == CatalogInit /\ [][OrderNext]_vars

(* C30: deleteOrder(id) removes the order's items before the order itself: *)
(* its first statement removes every order item carrying that orderId,     *)
(* whether or not the order is stored, and nothing else; its second        *)
(* removes the order row and nothing else, and the call returns true       *)
(* exactly when an order row with that id existed; after it completes      *)
(* without an interleaved createOrderItem no order item with that orderId  *)
(* remains.                                                                *)
C30_ItemsBeforeOrder ==
  [][\A c \in Requests :
       /\ (deleteOrders[c].pc = "idle" /\ deleteOrders'[c].pc = "itemsDeleted") =>
            /\ getOrderItems(orderItems', deleteOrders'[c].id) = {}
            /\ orderItems' = orderItems \ getOrderItems(orderItems, deleteOrders'[c].id)
            /\ orders' = orders
       /\ (deleteOrders[c].pc = "itemsDeleted" /\ deleteOrders'[c].pc = "done") =>
            LET id == deleteOrders[c].id
            IN /\ orderItems' = orderItems
               /\ orders' = {o \in orders : o.id # id}
               /\ getOrder(orders', id) = {<<>>}
               /\ deleteOrders'[c].ret = <<\E o \in orders : o.id = id>>
               /\ ~deleteOrders[c].interleaved => getOrderItems(orderItems', id) = {}]_vars

\* One deleteOrder removed an item and then the order and returned true; a
\* second one, for an id without an order, removed an item and returned false;
\* no createOrderItem ran between the statements of either
C30_Witness ==
  \E c, d \in Requests :
    /\ deleteOrders[c].pc = "done" /\ deleteOrders[d].pc = "done"
    /\ ~deleteOrders[c].interleaved /\ ~deleteOrders[d].interleaved
    /\ deleteOrders[c].ret = <<TRUE>> /\ deleteOrders[c].removed > 0
    /\ deleteOrders[d].ret = <<FALSE>> /\ deleteOrders[d].removed > 0
    /\ deleteOrders[c].id # deleteOrders[d].id
    /\ orderItems = {}

====
